---- MODULE Spec2Model ----
(***************************************************************************)
(* Model of the prompt-sync-editor synchronisation engine (src/App.tsx,    *)
(* third revision, lines 1416-3162), its diff detector                     *)
(* (src/utils/diffUtils.ts) and its history hook (src/hooks/useApiKeys.ts, *)
(* useHistory).                                                            *)
(*                                                                         *)
(* A text is a JavaScript string, modelled as a sequence of one-character  *)
(* strings; "\n" is the line separator.                                    *)
(***************************************************************************)
EXTENDS Integers, Sequences, FiniteSets, Bags, TLC

\* ------------------------------------------------------------------ bounds
MaxLines == 4      \* lines per text in the pure-function specifications

\* --------------------------------------------------------------- alphabet
NL == "\n"
LineSet == { <<>>, <<"a">>, <<"b">> }

\* ------------------------------------------------------- string primitives
Min(a, b) == IF a < b THEN a ELSE b
Max(a, b) == IF a > b THEN a ELSE b

\* Array.prototype.slice(from, to) for 0 <= from, 0 <= to (0-based, to
\* exclusive, both clamped to the length).
Slice(s, from, to) ==
  LET f == Min(from, Len(s))
      t == Min(to, Len(s))
  IN  IF t <= f THEN <<>> ELSE SubSeq(s, f + 1, t)

\* Array.prototype.slice(from): to the end.
SliceFrom(s, from) == Slice(s, from, Len(s))

\* Index (1-based) of the first "\n" at or after position i, or 0.
RECURSIVE IndexOfNL(_, _)
IndexOfNL(t, i) ==
  IF i > Len(t) THEN 0
  ELSE IF t[i] = NL THEN i
  ELSE IndexOfNL(t, i + 1)

\* String.prototype.split("\n"): never empty, "" gives [""].
RECURSIVE Split(_)
Split(t) ==
  LET k == IndexOfNL(t, 1)
  IN  IF k = 0 THEN << t >>
      ELSE << SubSeq(t, 1, k - 1) >> \o Split(SubSeq(t, k + 1, Len(t)))

\* Array.prototype.join("\n"): [] gives "".
RECURSIVE Join(_)
Join(ls) ==
  IF Len(ls) = 0 THEN <<>>
  ELSE IF Len(ls) = 1 THEN ls[1]
  ELSE ls[1] \o << NL >> \o Join(Tail(ls))

IsSpace(c) == c = " " \/ c = NL

\* String.prototype.trim() over the model's alphabet.
RECURSIVE TrimLeft(_)
TrimLeft(t) ==
  IF Len(t) > 0 /\ IsSpace(t[1]) THEN TrimLeft(Tail(t)) ELSE t
RECURSIVE TrimRight(_)
TrimRight(t) ==
  IF Len(t) > 0 /\ IsSpace(t[Len(t)]) THEN TrimRight(SubSeq(t, 1, Len(t) - 1))
  ELSE t
Trim(t) == TrimRight(TrimLeft(t))

\* ----------------------------------------------------------- diff detector
NoDiff == [ some |-> FALSE, start |-> 0, end |-> 0, oldEnd |-> 0,
            changedText |-> <<>> ]

RECURSIVE ScanStart(_, _, _)
ScanStart(oldLines, newLines, startLine) ==
  IF startLine < Min(Len(oldLines), Len(newLines))
     /\ oldLines[startLine + 1] = newLines[startLine + 1]
  THEN ScanStart(oldLines, newLines, startLine + 1)
  ELSE startLine

RECURSIVE ScanEnd(_, _, _, _, _)
ScanEnd(oldLines, newLines, startLine, endLineOld, endLineNew) ==
  IF endLineOld >= startLine /\ endLineNew >= startLine
     /\ oldLines[endLineOld + 1] = newLines[endLineNew + 1]
  THEN ScanEnd(oldLines, newLines, startLine, endLineOld - 1, endLineNew - 1)
  ELSE << endLineOld, endLineNew >>

\* Variant: one end cursor for both texts, oldEnd reported as end.
findDifferencesSharedEnd(oldText, newText) ==
  IF oldText = newText THEN NoDiff
  ELSE
    LET oldLines  == Split(oldText)
        newLines  == Split(newText)
        startLine == ScanStart(oldLines, newLines, 0)
        ends      == ScanEnd(oldLines, newLines, startLine,
                             Len(oldLines) - 1, Len(newLines) - 1)
    IN  [ some |-> TRUE, start |-> startLine, end |-> ends[2],
          oldEnd |-> ends[2],
          changedText |-> Join(Slice(newLines, startLine, ends[2] + 1)) ]

\* Variant: no result when the changed text is empty.
findDifferencesNullOnEmptyChange(oldText, newText) ==
  IF oldText = newText THEN NoDiff
  ELSE
    LET oldLines  == Split(oldText)
        newLines  == Split(newText)
        startLine == ScanStart(oldLines, newLines, 0)
        ends      == ScanEnd(oldLines, newLines, startLine,
                             Len(oldLines) - 1, Len(newLines) - 1)
        changedText == Join(Slice(newLines, startLine, ends[2] + 1))
    IN  IF Len(changedText) = 0 THEN NoDiff
        ELSE [ some |-> TRUE, start |-> startLine, end |-> ends[2],
               oldEnd |-> ends[1], changedText |-> changedText ]

\* Variant: the common leading lines are not skipped.
findDifferencesFromFirstLine(oldText, newText) ==
  IF oldText = newText THEN NoDiff
  ELSE
    LET oldLines  == Split(oldText)
        newLines  == Split(newText)
        ends      == ScanEnd(oldLines, newLines, 0,
                             Len(oldLines) - 1, Len(newLines) - 1)
    IN  [ some |-> TRUE, start |-> 0, end |-> ends[2],
          oldEnd |-> ends[1],
          changedText |-> Join(Slice(newLines, 0, ends[2] + 1)) ]

\* Variant: the end cursors retreat past the common leading lines.
findDifferencesEndsPassStart(oldText, newText) ==
  IF oldText = newText THEN NoDiff
  ELSE
    LET oldLines  == Split(oldText)
        newLines  == Split(newText)
        startLine == ScanStart(oldLines, newLines, 0)
        ends      == ScanEnd(oldLines, newLines, 0,
                             Len(oldLines) - 1, Len(newLines) - 1)
    IN  [ some |-> TRUE, start |-> startLine, end |-> ends[2],
          oldEnd |-> ends[1],
          changedText |-> Join(Slice(newLines, startLine, ends[2] + 1)) ]

findDifferences(oldText, newText) ==
  IF oldText = newText THEN NoDiff
  ELSE
    LET oldLines  == Split(oldText)
        newLines  == Split(newText)
        startLine == ScanStart(oldLines, newLines, 0)
        ends      == ScanEnd(oldLines, newLines, startLine,
                             Len(oldLines) - 1, Len(newLines) - 1)
    IN  [ some |-> TRUE, start |-> startLine, end |-> ends[2],
          oldEnd |-> ends[1],
          changedText |-> Join(Slice(newLines, startLine, ends[2] + 1)) ]

\* ------------------------------------------------------------- text domain
LineSeqs(n) == UNION { [1..k -> LineSet] : k \in 1..n }
Texts == { Join(ls) : ls \in LineSeqs(MaxLines) }

\* ------------------------------------------------------------ history hook
MaxHistory == 50

HistoryEntry(left, right, leftTokens, rightTokens) ==
  [ leftText |-> left, rightText |-> right,
    leftTokenCount |-> leftTokens, rightTokenCount |-> rightTokens ]

\* Variant: the index is advanced also when the oldest entry is shifted out.
saveToHistoryAlwaysAdvances(h, i, newState) ==
  LET pushed == Slice(h, 0, i + 1) \o << newState >>
  IN  IF Len(pushed) > MaxHistory
      THEN [ history |-> Tail(pushed), setIndex |-> TRUE, index |-> i + 1 ]
      ELSE [ history |-> pushed, setIndex |-> TRUE, index |-> i + 1 ]

\* Variant: the entries beyond the index are kept.
saveToHistoryNoTruncation(h, i, newState) ==
  LET pushed == h \o << newState >>
  IN  IF Len(pushed) > MaxHistory
      THEN [ history |-> Tail(pushed), setIndex |-> FALSE, index |-> i ]
      ELSE [ history |-> pushed, setIndex |-> TRUE, index |-> i + 1 ]

\* Variant: the newest entry is dropped from a full log instead of the oldest.
saveToHistoryDropsNewest(h, i, newState) ==
  LET pushed == Slice(h, 0, i + 1) \o << newState >>
  IN  IF Len(pushed) > MaxHistory
      THEN [ history |-> SubSeq(pushed, 1, Len(pushed) - 1),
             setIndex |-> FALSE, index |-> i ]
      ELSE [ history |-> pushed, setIndex |-> TRUE, index |-> i + 1 ]

\* saveToHistory run in a render whose history / historyIndex are h / i.
\* setIndex tells whether setHistoryIndex is called (it is not when the
\* oldest entry is shifted out).
saveToHistory(h, i, newState) ==
  LET pushed == Slice(h, 0, i + 1) \o << newState >>
  IN  IF Len(pushed) > MaxHistory
      THEN [ history |-> Tail(pushed), setIndex |-> FALSE, index |-> i ]
      ELSE [ history |-> pushed, setIndex |-> TRUE, index |-> i + 1 ]

\* historyIndex after the hook's undo(): one less when above 0.
undo(h, i) == IF i > 0 THEN i - 1 ELSE i

\* historyIndex after the hook's redo(): one more when below the last entry.
redo(h, i) == IF i < Len(h) - 1 THEN i + 1 ELSE i

\* ------------------------------------------------ translation validation
\* The words of the three systemResponses patterns of validateTranslation.
StrIm == <<"i", "'", "m">>
StrIam == <<"i", " ", "a", "m">>
StrSorry == <<"s", "o", "r", "r", "y">>
StrAi == <<"a", "i">>
StrLanguageModel == <<"l", "a", "n", "g", "u", "a", "g", "e", " ", "m", "o", "d", "e", "l">>
StrAssistant == <<"a", "s", "s", "i", "s", "t", "a", "n", "t">>
StrCant == <<"c", "a", "n", "'", "t">>
StrCanNot == <<"c", "a", "n", " ", "n", "o", "t">>
StrCannot == <<"c", "a", "n", "n", "o", "t">>
StrDoThat == <<"d", "o", " ", "t", "h", "a", "t">>
StrAssist == <<"a", "s", "s", "i", "s", "t">>
StrHelpWith == <<"h", "e", "l", "p", " ", "w", "i", "t", "h">>
StrAs == <<"a", "s">>

Sp == << " " >>

ToLower(c) == IF c = "I" THEN "i" ELSE IF c = "A" THEN "a" ELSE c
LowerCase(t) == [ k \in 1..Len(t) |-> ToLower(t[k]) ]

Contains(t, p) ==
  \E k \in 1..(Len(t) - Len(p) + 1) : SubSeq(t, k, k + Len(p) - 1) = p

\* an? (ai|language model|assistant)
ArticleNoun ==
  { art \o Sp \o n : art \in { << "a" >>, << "a", "n" >> },
                     n \in { StrAi, StrLanguageModel, StrAssistant } }

\* /i('m| am) (sorry|an? (ai|language model|assistant))/i
PatternIAm ==
  { h \o Sp \o r : h \in { StrIm, StrIam }, r \in { StrSorry } \cup ArticleNoun }

\* /i (can('t| not)|cannot) (do that|assist|help with)/i
PatternICannot ==
  { << "i" >> \o Sp \o c \o Sp \o v :
      c \in { StrCant, StrCanNot, StrCannot },
      v \in { StrDoThat, StrAssist, StrHelpWith } }

\* /as an? (ai|language model|assistant)/i
PatternAsAn == { StrAs \o Sp \o r : r \in ArticleNoun }

systemResponses == PatternIAm \cup PatternICannot \cup PatternAsAn

SuspiciousInputLen == 100
SuspiciousOutputLen == 10

\* Variant: the length rule only, no refusal patterns.
validateTranslationLengthOnly(original, translated) ==
  IF Len(original) > SuspiciousInputLen /\ Len(translated) < SuspiciousOutputLen
  THEN FALSE
  ELSE TRUE

\* Variant: the length rule includes its two limits.
validateTranslationInclusive(original, translated) ==
  IF Len(original) >= SuspiciousInputLen /\ Len(translated) <= SuspiciousOutputLen
  THEN FALSE
  ELSE IF \E p \in systemResponses : Contains(LowerCase(translated), p)
  THEN FALSE
  ELSE TRUE

validateTranslation(original, translated) ==
  IF Len(original) > SuspiciousInputLen /\ Len(translated) < SuspiciousOutputLen
  THEN FALSE
  ELSE IF \E p \in systemResponses : Contains(LowerCase(translated), p)
  THEN FALSE
  ELSE TRUE

\* The role words of sanitizeInput's first pattern.
StrSystem == << "s", "y", "s", "t", "e", "m" >>
StrUser == << "u", "s", "e", "r" >>
RoleMarkers == { StrSystem, StrAssistant, StrUser }

\* /(?:system|assistant|user):\s*/gi matches at position i of t: the lengths
\* of the role words that do (at most one, the words start differently).
MarkerAt(t, i) ==
  { Len(m) : m \in { w \in RoleMarkers :
                       /\ i + Len(w) <= Len(t)
                       /\ LowerCase(SubSeq(t, i, i + Len(w) - 1)) = w
                       /\ t[i + Len(w)] = ":" } }

\* The first position at or after i that holds no whitespace.
RECURSIVE SkipSpaces(_, _)
SkipSpaces(t, i) ==
  IF i <= Len(t) /\ IsSpace(t[i]) THEN SkipSpaces(t, i + 1) ELSE i

\* text.replace(/(?:system|assistant|user):\s*/gi, '') from position i on.
RECURSIVE removeRoleMarkers(_, _)
removeRoleMarkers(t, i) ==
  IF i > Len(t) THEN << >>
  ELSE IF MarkerAt(t, i) # {}
  THEN removeRoleMarkers(t, SkipSpaces(t, i + (CHOOSE n \in MarkerAt(t, i) : TRUE) + 1))
  ELSE << t[i] >> \o removeRoleMarkers(t, i + 1)

\* sanitizeInput: the role markers are removed, then the text is trimmed.
\* The second and third replace() pattern need one of the words
\* ignore/disregard/forget or a backquote, which cannot be spelled with the
\* characters of the texts used here.
sanitizeInput(text) == Trim(removeRoleMarkers(text, 1))

\* sanitizeAIOutputWithCodeProtection: every pattern it rewrites needs an
\* angle bracket, a colon, an equals sign or a backquote, and no text used
\* here has one, so the text is returned as it is.
sanitizeAIOutputWithCodeProtection(text) == text

\* ---------------------------------------------------------------- highlights
RECURSIVE ScanStartPos(_, _, _)
ScanStartPos(oldText, newText, startPos) ==
  IF startPos < Min(Len(oldText), Len(newText))
     /\ oldText[startPos + 1] = newText[startPos + 1]
  THEN ScanStartPos(oldText, newText, startPos + 1)
  ELSE startPos

RECURSIVE ScanEndPos(_, _, _, _, _)
ScanEndPos(oldText, newText, startPos, endPosOld, endPosNew) ==
  IF endPosOld >= startPos /\ endPosNew >= startPos
     /\ oldText[endPosOld + 1] = newText[endPosNew + 1]
  THEN ScanEndPos(oldText, newText, startPos, endPosOld - 1, endPosNew - 1)
  ELSE << endPosOld, endPosNew >>

\* Variant: a highlight is computed only when the text grew.
addedHighlightsOnGrowthOnly(oldText, newText) ==
  IF Len(newText) > Len(oldText)
  THEN LET startPos == ScanStartPos(oldText, newText, 0)
           ends     == ScanEndPos(oldText, newText, startPos,
                                  Len(oldText) - 1, Len(newText) - 1)
       IN  IF ends[2] >= startPos
           THEN << [ start |-> startPos, end |-> ends[2] + 1, type |-> "added" ] >>
           ELSE << >>
  ELSE << >>

\* The highlights array applyHighlights computes: empty or one 'added' range.
addedHighlights(oldText, newText) ==
  IF Len(newText) > Len(oldText) \/ newText # oldText
  THEN LET startPos == ScanStartPos(oldText, newText, 0)
           ends     == ScanEndPos(oldText, newText, startPos,
                                  Len(oldText) - 1, Len(newText) - 1)
       IN  IF ends[2] >= startPos
           THEN << [ start |-> startPos, end |-> ends[2] + 1, type |-> "added" ] >>
           ELSE << >>
  ELSE << >>

RECURSIVE SumLineStarts(_, _)
SumLineStarts(lines, startLine) ==
  IF startLine = 0 THEN 0
  ELSE SumLineStarts(lines, startLine - 1) + Len(lines[startLine]) + 1

RECURSIVE SumLineEnds(_, _, _)
SumLineEnds(lines, i, endLine) ==
  IF i <= endLine /\ i < Len(lines)
  THEN Len(lines[i + 1]) + (IF i < endLine THEN 1 ELSE 0)
       + SumLineEnds(lines, i + 1, endLine)
  ELSE 0

\* The highlights array applyDeletionHighlights computes.  Reading
\* lines[i].length for i >= lines.length throws a TypeError: threw is TRUE
\* and nothing is set.
removedHighlights(text, startLine, endLine) ==
  LET lines == Split(text)
  IN  IF startLine > Len(lines)
      THEN [ threw |-> TRUE, highlights |-> << >> ]
      ELSE LET charStart == SumLineStarts(lines, startLine)
               charEnd   == charStart + SumLineEnds(lines, startLine, endLine)
           IN  [ threw |-> FALSE,
                 highlights |-> << [ start |-> charStart, end |-> charEnd,
                                     type |-> "removed" ] >> ]

\* ------------------------------------------------- classification and merge
\* The branch performTranslation takes for previous-committed text prevText
\* and debounced text curText of the edited pane, with the text it passes to
\* translateText (sendText) and the number of re-translated lines of the
\* partial-deletion branch (modifiedLen).
linesCompletelyRemoved(diff, newLines, oldLines) ==
  diff.oldEnd >= diff.start
  /\ ( diff.end < diff.start
       \/ (diff.end = 0 /\ diff.start = 0 /\ Len(newLines) < Len(oldLines)) )

performTranslationBranch(prevText, curText) ==
  LET diff == findDifferences(prevText, curText)
      plan(b, t, m) == [ branch |-> b, sendText |-> t, diff |-> diff,
                         modifiedLen |-> m ]
  IN  IF Len(prevText) = 0
      THEN plan("first", curText, 0)
      ELSE IF diff.some /\ Len(Trim(diff.changedText)) > 0
              /\ Len(curText) >= Len(prevText)
      THEN plan("incremental", diff.changedText, 0)
      ELSE IF diff.some /\ Len(curText) < Len(prevText)
      THEN LET newLines == Split(curText)
               oldLines == Split(prevText)
           IN  IF linesCompletelyRemoved(diff, newLines, oldLines)
                  /\ Len(newLines) < Len(oldLines)
               THEN plan("wholeLine", << >>, 0)
               ELSE LET modifiedLines ==
                          Slice(newLines, diff.start,
                                Max(diff.start + 1, diff.end + 1))
                        modifiedText == Join(modifiedLines)
                    IN  IF Len(Trim(modifiedText)) > 0
                        THEN plan("partial", modifiedText, Len(modifiedLines))
                        ELSE plan("none", << >>, 0)
      ELSE plan("none", << >>, 0)

\* translateText returns undefined at once, without a call, for a blank text
\* or a missing API key.
translateTextSkips(text, hasKey) == Len(Trim(text)) = 0 \/ ~hasKey

\* Variant: the incremental merge drops the opposite pane's lines up to the
\* new text's last changed line instead of the old text's.
mergedTextUsesNewEnd(branch, prevOpp, translated, diff, modifiedLen) ==
  LET oppLines == Split(prevOpp)
      translatedLines == Split(translated)
  IN  IF branch = "first" THEN translated
      ELSE IF branch = "incremental"
      THEN Join(Slice(oppLines, 0, diff.start) \o translatedLines
                \o SliceFrom(oppLines, diff.end + 1))
      ELSE Join(Slice(oppLines, 0, diff.start) \o translatedLines
                \o SliceFrom(oppLines, diff.start + modifiedLen))

\* The opposite pane's text after a successful cycle of the given branch.
mergedText(branch, prevOpp, translated, diff, modifiedLen) ==
  LET oppLines == Split(prevOpp)
      translatedLines == Split(translated)
  IN  IF branch = "first" THEN translated
      ELSE IF branch = "incremental"
      THEN Join(Slice(oppLines, 0, diff.start) \o translatedLines
                \o SliceFrom(oppLines, diff.oldEnd + 1))
      ELSE Join(Slice(oppLines, 0, diff.start) \o translatedLines
                \o SliceFrom(oppLines, diff.start + modifiedLen))

\* The opposite pane's text after the deferred whole-line deletion.
splicedText(prevOpp, diff) ==
  LET oppLines == Split(prevOpp)
  IN  Join(Slice(oppLines, 0, diff.start) \o SliceFrom(oppLines, diff.oldEnd + 1))

\* Math.ceil(text.length / 4): the local estimate of fetchTokenCount (the
\* 'openai' case and the catch block; no CJK character occurs in the texts
\* used here).
estimateTokens(text) == (Len(text) + 3) \div 4

\* fetchTokenCount(text) up to its first await, for the provider and key of
\* the render that calls it: either the promise settles within the calling
\* task with value (blank text, no key, provider 'openai'), or a countTokens
\* request is sent and the promise is pending.
fetchTokenCount(text, provider, hasKey) ==
  IF Len(Trim(text)) = 0 \/ ~hasKey
  THEN [ pending |-> FALSE, value |-> 0 ]
  ELSE IF provider = "openai"
       THEN [ pending |-> FALSE, value |-> estimateTokens(text) ]
       ELSE [ pending |-> TRUE, value |-> 0 ]

\* What a pending fetchTokenCount(text) returns once its request is answered
\* by a: data.totalTokens || 0 (data.input_tokens || 0), or the local
\* estimate when the request or the parsing of its answer throws.
fetchTokenCountAnswer(text, a) ==
  IF a.kind = "error" THEN estimateTokens(text) ELSE a.n

\* =========================================================================
\* The application: state of the App component and of its pending callbacks
\* =========================================================================
MaxEdits == 2       \* user inputs in a behaviour: keystrokes (change events)
                    \* and changes of the settings
MaxSettings == 2    \* changes of the settings in a behaviour
MaxCycles == 2      \* sync cycles started in a behaviour
MaxPending == 2     \* countTokens requests unanswered at one time

\* Timer delays in ticks of 500 ms.
DebounceTicks == 2  \* userSettings.translationDelay, default 1000 ms
SlowTicks == 4      \* userSettings.translationDelay moved to 2000 ms
AddedTicks == 1     \* applyHighlights duration, 500 ms
RemovedTicks == 2   \* applyDeletionHighlights duration, 1000 ms
DeletionTicks == 2  \* delay of the deferred whole-line deletion, 1000 ms
DelayTicks == { DebounceTicks, SlowTicks }

Side == { "left", "right" }
Other(p) == IF p = "left" THEN "right" ELSE "left"

Providers == { "gemini", "openai", "claude" }

Empty == << >>
TxtA == << "a" >>
TxtAB == << "a", NL, "b" >>
EditTexts == { Empty, TxtA, TxtAB }

RespError == [ kind |-> "error", text |-> Empty ]
RespText(t) == [ kind |-> "text", text |-> t ]
RefusalText == StrIm \o Sp \o StrSorry
Responses == { RespError, RespText(<< "x" >>), RespText(RefusalText) }

\* Answers to a countTokens request: a count (0 also stands for an answer
\* without the count field), or a failure.
CountError == [ kind |-> "error", n |-> 0 ]
CountOf(n) == [ kind |-> "count", n |-> n ]
CountAnswers == { CountOf(7) }

VARIABLES
  text,           \* leftText / rightText
  prev,           \* prevLeftText / prevRightText
  debounced,      \* debouncedLeft / debouncedRight
  lastEdited,     \* "left", "right" or "none" (null)
  tokenCount,     \* leftTokenCount / rightTokenCount
  isTranslating,
  error,          \* "none" (null) or the kind of message shown
  highlights,     \* leftHighlights / rightHighlights
  history,
  historyIndex,
  apiKeys,        \* per provider: apiKeys[provider] is non-empty
  llmProvider,
  autoTranslate,  \* userSettings.autoTranslate
  translationDelay, \* userSettings.translationDelay, in ticks
  settingsOps,    \* number of changes of the settings so far
  keySaves,       \* handleSaveApiKeys calls awaiting the storage (a bag),
                  \* each with the keys of the render of its click
  debTimer,       \* ticks left of each pane's debounce timer, -1: none
  hlTimers,       \* pending highlight-clear timers (a bag)
  delTimers,      \* pending deferred deletions, with their closures and the
                  \* number of keystrokes made before they were scheduled
  calls,          \* translation calls in flight, with their closures
  counts,         \* countTokens requests in flight (a bag), with what their
                  \* promise's continuation does
  edits,          \* number of keystrokes so far
  cycles,         \* number of sync cycles started so far
  lastCommit,     \* per pane, the highest number of a committed cycle
  ev,             \* the last step taken, when it is a debounce firing, the end
                  \* of a call, a deferred deletion, a deferred saveToHistory,
                  \* an undo, a redo or a clear
  argOld, argNew, result, pc,  \* pure-function specifications
  nextId,         \* history specification: number of the next appended entry
  histOps,        \* history specification: operations since the first non-append
  trip            \* history specification: the undo/redo round trip under way

settingsVars == << apiKeys, llmProvider, autoTranslate, translationDelay,
                   settingsOps, keySaves >>
appVars == << text, prev, debounced, lastEdited, tokenCount, isTranslating,
              error, highlights, history, historyIndex, settingsVars,
              debTimer, hlTimers, delTimers, calls, counts, edits, cycles,
              lastCommit, ev >>
fnVars == << argOld, argNew, result, pc, nextId, histOps, trip >>
vars == << appVars, fnVars >>

Both(v) == [ p \in Side |-> v ]

\* const apiKey = apiKeys[llmProvider], as a truth value.
apiKey == apiKeys[llmProvider]
AllKeys(b) == [ k \in Providers |-> b ]

Event(k, p, n, r, o) == [ kind |-> k, side |-> p, cycle |-> n, resp |-> r,
                          ok |-> o ]
NoEvent == Event("other", "left", 0, RespError, FALSE)
\* A step of a user handler (kind "undo", "redo" or "clear").
UserEvent(k) == Event(k, "left", 0, RespError, FALSE)

\* The state once the component is mounted and loadApiKeys has settled,
\* with the default provider and settings and every provider's key stored.
AppInit ==
  /\ text = Both(Empty)
  /\ prev = Both(Empty)
  /\ debounced = Both(Empty)
  /\ lastEdited = "none"
  /\ tokenCount = Both(0)
  /\ isTranslating = FALSE
  /\ error = "none"
  /\ highlights = Both(<< >>)
  /\ history = << >>
  /\ historyIndex = -1
  /\ apiKeys = AllKeys(TRUE)
  /\ llmProvider = "gemini"
  /\ autoTranslate = TRUE
  /\ translationDelay = DebounceTicks
  /\ settingsOps = 0 /\ keySaves = EmptyBag
  /\ debTimer = Both(DebounceTicks)
  /\ hlTimers = EmptyBag
  /\ delTimers = {}
  /\ calls = {}
  /\ counts = EmptyBag
  /\ edits = 0
  /\ cycles = 0
  /\ lastCommit = Both(0)
  /\ ev = NoEvent

NoTrip == [ phase |-> "free", top |-> -1, left |-> 0, hist |-> << >> ]

FnIdle ==
  /\ argOld = Empty /\ argNew = Empty /\ result = NoDiff /\ pc = "app"
  /\ nextId = 1 /\ histOps = 0 /\ trip = NoTrip

\* Variant: a keystroke leaves a pending timer running.
restartDebounceKeepsPending(newText) ==
  [ p \in Side |-> IF newText[p] # text[p] /\ debTimer[p] < 0
                   THEN translationDelay ELSE debTimer[p] ]

\* A pane's debounce effect re-runs, and restarts the timer, when its text
\* differs from the text of the previous render.
restartDebounce(newText) ==
  [ p \in Side |-> IF newText[p] # text[p] THEN translationDelay
                   ELSE debTimer[p] ]

\* No timer (no request) is in the bag b.
NoneIn(b) == BagToSet(b) = {}

\* One more timer tm in the bag of timers b; the timer tm of b has run.
WithTimer(b, tm) == b (+) SetToBag({ tm })
WithoutTimer(b, tm) == b (-) SetToBag({ tm })

\* ----------------------------------------------------------------- actions
\* Variant: the keystroke also moves the previous-committed text.
handleChangeCommitsPrev(p, t) ==
  /\ edits + settingsOps < MaxEdits
  /\ t # text[p]
  /\ text' = [ text EXCEPT ![p] = t ]
  /\ prev' = [ prev EXCEPT ![p] = t ]
  /\ lastEdited' = p
  /\ debTimer' = restartDebounce(text')
  /\ edits' = edits + 1
  /\ ev' = NoEvent
  /\ UNCHANGED << debounced, tokenCount, isTranslating, error,
                  highlights, history, historyIndex, settingsVars,
                  hlTimers, delTimers, calls, counts, cycles,
                  lastCommit >>

\* handleLeftChange / handleRightChange: a change event carrying text t.
handleChange(p, t) ==
  /\ edits + settingsOps < MaxEdits
  /\ t # text[p]
  /\ text' = [ text EXCEPT ![p] = t ]
  /\ lastEdited' = p
  /\ debTimer' = restartDebounce(text')
  /\ edits' = edits + 1
  /\ ev' = NoEvent
  /\ UNCHANGED << prev, debounced, tokenCount, isTranslating, error,
                  highlights, history, historyIndex, settingsVars,
                  hlTimers, delTimers, calls, counts, cycles,
                  lastCommit >>

\* The history entry a cycle of pane p saves: its own text src with the
\* token count of its closure, the opposite text with the count that
\* fetchTokenCount returned for it.
cycleEntry(p, src, newOpp, closureTokens, tokens) ==
  IF p = "left"
  THEN HistoryEntry(src, newOpp, closureTokens, tokens)
  ELSE HistoryEntry(newOpp, src, tokens, closureTokens)

\* saveToHistory of the render with history hist and index histIdx.
savedEntry(hist, histIdx, entry) ==
  LET saved == saveToHistory(hist, histIdx, entry)
  IN  /\ history' = saved.history
      /\ historyIndex' = IF saved.setIndex THEN saved.index ELSE historyIndex

\* The countTokens request of a sync effect (kind "pane": its answer sets
\* the pane's token count) and of a cycle's commit (kind "save": its answer
\* is followed by the closure's saveToHistory).
\* c is the cycle's call or deferred deletion, with its closure.
PaneCount(p, d) ==
  [ kind |-> "pane", side |-> p, cycle |-> 0, branch |-> "none", text |-> d,
    src |-> Empty, tokens |-> 0, hist |-> << >>, histIdx |-> -1 ]
SaveCount(c, newOpp) ==
  [ kind |-> "save", side |-> c.side, cycle |-> c.cycle, branch |-> c.branch,
    text |-> newOpp, src |-> c.src, tokens |-> c.tokens, hist |-> c.hist,
    histIdx |-> c.histIdx ]

\* The part of the sync cycle c (a call or a deferred deletion, with its
\* closure) that follows the translation or the deletion delay: write the
\* opposite pane, move both previous-committed texts, then fetchTokenCount
\* (count is its value up to the first await) and, at once or when the
\* request is answered, saveToHistory with the history and index of the
\* cycle's closure.
commitCycle(c, newOpp, count) ==
  /\ text' = [ text EXCEPT ![Other(c.side)] = newOpp ]
  /\ prev' = [ prev EXCEPT ![c.side] = c.src, ![Other(c.side)] = newOpp ]
  /\ debTimer' = restartDebounce(text')
  /\ lastCommit' = [ lastCommit EXCEPT ![c.side] = Max(@, c.cycle) ]
  /\ IF count.pending
     THEN /\ BagCardinality(counts) < MaxPending
          /\ counts' = counts (+) SetToBag({ SaveCount(c, newOpp) })
          /\ UNCHANGED << history, historyIndex >>
     ELSE /\ counts' = counts
          /\ savedEntry(c.hist, c.histIdx,
                        cycleEntry(c.side, c.src, newOpp, c.tokens, count.value))

\* What performTranslation does at once for previous-committed text prevText
\* and text curText of the edited pane, prevOpp the previous-committed text
\* of the opposite pane: the branch, whether translateText issues a call
\* (sends), whether the deferred whole-line deletion is scheduled (deletes).
\* active is the guard under which the body runs at all.
cycleStarted(plan, removed, hasKey, active) ==
  [ plan    |-> plan,
    removed |-> removed,
    sends   |-> active /\ plan.branch \in { "first", "incremental", "partial" }
                /\ ~translateTextSkips(plan.sendText, hasKey),
    deletes |-> active /\ plan.branch = "wholeLine" /\ ~removed.threw ]

\* The same for a plan already computed: the Removed highlight is computed
\* from the opposite pane's committed text and the plan's diff.
cyclePlanned(plan, prevOpp, hasKey, active) ==
  cycleStarted(plan,
               removedHighlights(prevOpp, plan.diff.start, plan.diff.oldEnd),
               hasKey, active)

\* performTranslation up to its first await or timer, as a value.
cycleStart(prevText, curText, prevOpp, hasKey, active) ==
  cyclePlanned(performTranslationBranch(prevText, curText), prevOpp, hasKey,
               active)

\* The cycle of pane p started for text d: the call in flight or the
\* deferred deletion, each with the state of the render it closes over
\* (render.provider and render.key are its llmProvider and apiKey).
scheduleCycle(p, o, d, plan, sends, deletes, removed, render) ==
  /\ (sends \/ deletes) => cycles < MaxCycles
  /\ cycles' = IF sends \/ deletes THEN cycles + 1 ELSE cycles
  /\ calls' = IF sends
              THEN calls \cup
                   { [ side |-> p, cycle |-> cycles + 1,
                       branch |-> plan.branch, src |-> d,
                       prevOpp |-> prev[o], diff |-> plan.diff,
                       modifiedLen |-> plan.modifiedLen,
                       sent |-> sanitizeInput(plan.sendText),
                       tokens |-> tokenCount[p],
                       hist |-> history, histIdx |-> historyIndex,
                       provider |-> render.provider ] }
              ELSE calls
  /\ isTranslating' = IF sends THEN TRUE ELSE isTranslating
  /\ error' = IF sends THEN "none" ELSE error
  /\ highlights' = IF deletes
                   THEN [ highlights EXCEPT ![o] = removed.highlights ]
                   ELSE highlights
  /\ hlTimers' = IF deletes
                 THEN WithTimer(hlTimers, [ side |-> o, left |-> RemovedTicks ])
                 ELSE hlTimers
  /\ delTimers' = IF deletes
                  THEN delTimers \cup
                       { [ side |-> p, cycle |-> cycles + 1,
                           branch |-> plan.branch,
                           left |-> DeletionTicks, src |-> d,
                           edits |-> edits,
                           prevOpp |-> prev[o], diff |-> plan.diff,
                           tokens |-> tokenCount[p],
                           hist |-> history, histIdx |-> historyIndex,
                           provider |-> render.provider,
                           key |-> render.key ] }
                  ELSE delTimers

\* The render with provider v and the stored keys.
Render(v) == [ provider |-> v, key |-> apiKeys[v] ]

\* The state written for the cycle start (a value of cycleStart).
startedCycle(p, d, start, render) ==
  scheduleCycle(p, Other(p), d, start.plan, start.sends, start.deletes,
                start.removed, render)

\* performTranslation of pane p for text d, up to its first await or timer.
startCycle(p, d, active, render) ==
  startedCycle(p, d, cycleStart(prev[p], d, prev[Other(p)], render.key, active),
               render)

\* fetchTokenCount(debounced).then(setTokenCount) of the sync effects of the
\* panes in ps, d[p] the debounced text of pane p.
countPanes(ps, d, render) ==
  /\ tokenCount' =
       [ q \in Side |->
           IF q \in ps /\ ~fetchTokenCount(d[q], render.provider, render.key).pending
           THEN fetchTokenCount(d[q], render.provider, render.key).value
           ELSE tokenCount[q] ]
  /\ counts' = counts (+)
       SetToBag({ PaneCount(q, d[q]) :
                    q \in { s \in ps : fetchTokenCount(d[s], render.provider,
                                                       render.key).pending } })
  /\ BagCardinality(counts') <= MaxPending

\* Variant: the guard on lastEdited is left out.
SyncEffectAnyPane(p, d, render) ==
  /\ startCycle(p, d[p], autoTranslate, render)
  /\ countPanes({ p }, d, render)

\* The sync effect of pane p ([debouncedLeft, llmProvider] /
\* [debouncedRight, llmProvider] effect), run in a render in which
\* debounced[p] is d[p].
SyncEffect(p, d, render) ==
  /\ startCycle(p, d[p], lastEdited = p /\ autoTranslate, render)
  /\ countPanes({ p }, d, render)

\* Pane p's debounce timer fires: setDebouncedLeft / setDebouncedRight, and
\* the sync effect when the debounced text changed.
DebounceFire(p) ==
  /\ debTimer[p] = 0
  /\ debTimer' = [ debTimer EXCEPT ![p] = -1 ]
  /\ debounced' = [ debounced EXCEPT ![p] = text[p] ]
  /\ IF debounced[p] # text[p]
     THEN SyncEffect(p, text, Render(llmProvider))
     ELSE UNCHANGED << tokenCount, isTranslating, error, highlights,
                       hlTimers, delTimers, calls, counts, cycles >>
  /\ ev' = Event("fire", p, 0, RespError, debounced[p] # text[p])
  /\ UNCHANGED << text, prev, lastEdited, history, historyIndex, settingsVars,
                  edits, lastCommit >>

\* handleManualTranslateLeft / handleManualTranslateRight.  The button is
\* rendered when auto-translate is off and is disabled for an empty pane or
\* while a translation started from the other pane is in flight; the
\* handler returns at once without a key.
handleManualTranslate(p) ==
  /\ ~autoTranslate
  /\ text[p] # Empty
  /\ ~(isTranslating /\ lastEdited = Other(p))
  /\ startCycle(p, text[p], apiKey, Render(llmProvider))
  /\ ev' = NoEvent
  /\ UNCHANGED << text, prev, debounced, lastEdited, tokenCount, history,
                  historyIndex, settingsVars, debTimer, counts, edits,
                  lastCommit >>

\* What translateText returns once the provider answered with r.
translateTextResult(sent, r) ==
  IF r.kind = "error"
  THEN [ ok |-> FALSE, text |-> Empty, error |-> "failed" ]
  ELSE LET trimmedTranslation == Trim(r.text)
       IN  IF ~validateTranslation(sent, trimmedTranslation)
           THEN [ ok |-> FALSE, text |-> Empty, error |-> "invalid" ]
           ELSE [ ok |-> TRUE,
                  text |-> sanitizeAIOutputWithCodeProtection(trimmedTranslation),
                  error |-> "none" ]

\* The translation call c resolves with the provider's answer r: the pane
\* and the previous-committed texts are written in this task, the history
\* entry when the closure's fetchTokenCount has settled.
Resolve(c, r) ==
  LET res    == translateTextResult(c.sent, r)
      o      == Other(c.side)
      newOpp == mergedText(c.branch, c.prevOpp, res.text, c.diff, c.modifiedLen)
  IN  /\ calls' = calls \ { c }
      /\ isTranslating' = FALSE
      /\ ev' = Event("resolve", c.side, c.cycle, r, res.ok)
      /\ IF res.ok
         THEN /\ highlights' = [ highlights EXCEPT
                                   ![o] = addedHighlights(c.prevOpp, newOpp) ]
              /\ hlTimers' = WithTimer(hlTimers,
                                       [ side |-> o, left |-> AddedTicks ])
              /\ commitCycle(c, newOpp,
                             fetchTokenCount(newOpp, c.provider, TRUE))
              /\ error' = error
         ELSE /\ error' = res.error
              /\ UNCHANGED << text, prev, debTimer, lastCommit, history,
                              historyIndex, highlights, hlTimers, counts >>
      /\ UNCHANGED << debounced, lastEdited, tokenCount, settingsVars,
                      delTimers, edits, cycles >>

\* The deferred whole-line deletion t runs.
DeletionFire(t) ==
  /\ t.left = 0
  /\ delTimers' = delTimers \ { t }
  /\ commitCycle(t, splicedText(t.prevOpp, t.diff),
                 fetchTokenCount(splicedText(t.prevOpp, t.diff), t.provider,
                                 t.key))
  /\ ev' = Event("delete", t.side, t.cycle, RespError, TRUE)
  /\ UNCHANGED << debounced, lastEdited, tokenCount, isTranslating, error,
                  highlights, settingsVars, hlTimers, calls,
                  edits, cycles >>

\* The countTokens request q is answered by a: its promise settles and the
\* continuation runs, setLeftTokenCount / setRightTokenCount for a sync
\* effect's request, saveToHistory for a commit's.
AnswerCount(q, a) ==
  /\ BagIn(q, counts)
  /\ counts' = counts (-) SetToBag({ q })
  /\ IF q.kind = "pane"
     THEN /\ tokenCount' = [ tokenCount EXCEPT
                               ![q.side] = fetchTokenCountAnswer(q.text, a) ]
          /\ ev' = NoEvent
          /\ UNCHANGED << history, historyIndex >>
     ELSE /\ savedEntry(q.hist, q.histIdx,
                        cycleEntry(q.side, q.src, q.text, q.tokens,
                                   fetchTokenCountAnswer(q.text, a)))
          /\ ev' = Event("save", q.side, q.cycle, RespError, TRUE)
          /\ UNCHANGED tokenCount
  /\ UNCHANGED << text, prev, debounced, lastEdited, isTranslating, error,
                  highlights, settingsVars, debTimer, hlTimers, delTimers,
                  calls, edits, cycles, lastCommit >>

\* Variant: the timer runs without emptying the pane's highlights.
HighlightClearKeeps(t) ==
  /\ BagIn(t, hlTimers)
  /\ t.left = 0
  /\ hlTimers' = WithoutTimer(hlTimers, t)
  /\ ev' = NoEvent
  /\ UNCHANGED << text, prev, debounced, lastEdited, tokenCount, isTranslating,
                  error, history, historyIndex, settingsVars, debTimer,
                  delTimers, calls, counts, edits, cycles, highlights,
                  lastCommit >>

\* setTimeout(() => setLeftHighlights([]) / setRightHighlights([]), duration).
HighlightClear(t) ==
  /\ BagIn(t, hlTimers)
  /\ t.left = 0
  /\ hlTimers' = WithoutTimer(hlTimers, t)
  /\ highlights' = [ highlights EXCEPT ![t.side] = << >> ]
  /\ ev' = NoEvent
  /\ UNCHANGED << text, prev, debounced, lastEdited, tokenCount, isTranslating,
                  error, history, historyIndex, settingsVars, debTimer,
                  delTimers, calls, counts, edits, cycles,
                  lastCommit >>

\* Variant: setHistoryIndex is left out.
restoreEntryKeepsIndex(i) ==
  LET state == history[i + 1]
  IN  /\ text' = [ left |-> state.leftText, right |-> state.rightText ]
      /\ prev' = [ left |-> state.leftText, right |-> state.rightText ]
      /\ tokenCount' = [ left |-> state.leftTokenCount,
                         right |-> state.rightTokenCount ]
      /\ historyIndex' = historyIndex
      /\ lastEdited' = "none"
      /\ debTimer' = restartDebounce(text')

\* Variant: setLastEdited(null) is left out.
restoreEntryKeepsLastEdited(i) ==
  LET state == history[i + 1]
  IN  /\ text' = [ left |-> state.leftText, right |-> state.rightText ]
      /\ prev' = [ left |-> state.leftText, right |-> state.rightText ]
      /\ tokenCount' = [ left |-> state.leftTokenCount,
                         right |-> state.rightTokenCount ]
      /\ historyIndex' = i
      /\ lastEdited' = lastEdited
      /\ debTimer' = restartDebounce(text')

\* Variant: setPrevRightText is left out.
restoreEntryOnePane(i) ==
  LET state == history[i + 1]
  IN  /\ text' = [ left |-> state.leftText, right |-> state.rightText ]
      /\ prev' = [ left |-> state.leftText, right |-> prev.right ]
      /\ tokenCount' = [ left |-> state.leftTokenCount,
                         right |-> state.rightTokenCount ]
      /\ historyIndex' = i
      /\ lastEdited' = "none"
      /\ debTimer' = restartDebounce(text')

\* Both panes, their previous-committed texts and the token counts are set
\* from history entry i; lastEdited becomes null.
restoreEntry(i) ==
  LET state == history[i + 1]
  IN  /\ text' = [ left |-> state.leftText, right |-> state.rightText ]
      /\ prev' = [ left |-> state.leftText, right |-> state.rightText ]
      /\ tokenCount' = [ left |-> state.leftTokenCount,
                         right |-> state.rightTokenCount ]
      /\ historyIndex' = i
      /\ lastEdited' = "none"
      /\ debTimer' = restartDebounce(text')

\* Variant: an undo that cannot move the cursor still resets lastEdited.
handleUndoResetsLastEdited ==
  /\ IF historyIndex > 0
     THEN restoreEntry(historyIndex - 1) /\ ev' = UserEvent("undo")
     ELSE /\ ev' = NoEvent
          /\ lastEdited' = "none"
          /\ UNCHANGED << text, prev, tokenCount, historyIndex, debTimer >>
  /\ UNCHANGED << debounced, isTranslating, error, highlights, history,
                  settingsVars, hlTimers, delTimers, calls, counts, edits,
                  cycles, lastCommit >>

handleUndo ==
  /\ IF historyIndex > 0
     THEN restoreEntry(historyIndex - 1) /\ ev' = UserEvent("undo")
     ELSE /\ ev' = NoEvent
          /\ UNCHANGED << text, prev, tokenCount, historyIndex, lastEdited,
                          debTimer >>
  /\ UNCHANGED << debounced, isTranslating, error, highlights, history,
                  settingsVars, hlTimers, delTimers, calls, counts, edits,
                  cycles, lastCommit >>

handleRedo ==
  /\ IF historyIndex < Len(history) - 1
     THEN restoreEntry(historyIndex + 1) /\ ev' = UserEvent("redo")
     ELSE /\ ev' = NoEvent
          /\ UNCHANGED << text, prev, tokenCount, historyIndex, lastEdited,
                          debTimer >>
  /\ UNCHANGED << debounced, isTranslating, error, highlights, history,
                  settingsVars, hlTimers, delTimers, calls, counts, edits,
                  cycles, lastCommit >>

\* Variant: clear leaves the previous-committed texts.
handleClearKeepsPrev ==
  /\ text' = Both(Empty)
  /\ tokenCount' = Both(0)
  /\ lastEdited' = "none"
  /\ history' = << >>
  /\ historyIndex' = -1
  /\ debTimer' = restartDebounce(text')
  /\ ev' = UserEvent("clear")
  /\ UNCHANGED << prev, debounced, isTranslating, error, highlights,
                  settingsVars, hlTimers, delTimers, calls, counts, edits,
                  cycles, lastCommit >>

handleClear ==
  /\ text' = Both(Empty)
  /\ prev' = Both(Empty)
  /\ tokenCount' = Both(0)
  /\ lastEdited' = "none"
  /\ history' = << >>
  /\ historyIndex' = -1
  /\ debTimer' = restartDebounce(text')
  /\ ev' = UserEvent("clear")
  /\ UNCHANGED << debounced, isTranslating, error, highlights,
                  settingsVars, hlTimers, delTimers, calls, counts, edits,
                  cycles, lastCommit >>

\* ------------------------------------------------- settings and the toast
\* A change of the settings is one of the user inputs of a behaviour.
SettingsChange ==
  /\ settingsOps < MaxSettings
  /\ edits + settingsOps < MaxEdits
  /\ settingsOps' = settingsOps + 1

\* setLlmProvider(v) from the settings' provider select: the next render has
\* provider v, and both sync effects re-run in it with the debounced texts
\* as they are.
setLlmProvider(v) ==
  /\ SettingsChange
  /\ v # llmProvider
  /\ llmProvider' = v
  /\ IF lastEdited \in Side
     THEN startCycle(lastEdited, debounced[lastEdited], autoTranslate,
                     Render(v))
     ELSE UNCHANGED << isTranslating, error, highlights, hlTimers, delTimers,
                       calls, cycles >>
  /\ countPanes(Side, debounced, Render(v))
  /\ ev' = NoEvent
  /\ UNCHANGED << text, prev, debounced, lastEdited, history, historyIndex,
                  apiKeys, autoTranslate, translationDelay, keySaves,
                  debTimer, edits,
                  lastCommit >>

\* setApiKeys from the key input of the settings, which is rendered for the
\* selected provider only: provider k's key becomes non-empty or empty.
setApiKeys(k) ==
  /\ SettingsChange
  /\ k = llmProvider
  /\ apiKeys' = [ apiKeys EXCEPT ![k] = ~@ ]
  /\ ev' = NoEvent
  /\ UNCHANGED << text, prev, debounced, lastEdited, tokenCount, isTranslating,
                  error, highlights, history, historyIndex, llmProvider,
                  autoTranslate, translationDelay, keySaves, debTimer,
                  hlTimers, delTimers, calls, counts, edits, cycles,
                  lastCommit >>

\* handleSaveApiKeys(apiKeys) from the settings' save button, up to its
\* first await: the writes to the storage are started with the keys of the
\* render of the click.
handleSaveApiKeys ==
  /\ SettingsChange
  /\ keySaves' = keySaves (+) SetToBag({ [ keys |-> apiKeys ] })
  /\ ev' = NoEvent
  /\ UNCHANGED << text, prev, debounced, lastEdited, tokenCount, isTranslating,
                  error, highlights, history, historyIndex, apiKeys,
                  llmProvider, autoTranslate, translationDelay, debTimer,
                  hlTimers, delTimers, calls, counts, edits, cycles,
                  lastCommit >>

\* The writes of the save s have settled: setApiKeys(keys) with the keys
\* captured at the click (stored), or the storage has thrown and the catch
\* sets the error.
SaveApiKeysSettled(s, stored) ==
  /\ BagIn(s, keySaves)
  /\ keySaves' = keySaves (-) SetToBag({ s })
  /\ apiKeys' = IF stored THEN s.keys ELSE apiKeys
  /\ error' = IF stored THEN error ELSE "keysave"
  /\ ev' = NoEvent
  /\ UNCHANGED << text, prev, debounced, lastEdited, tokenCount, isTranslating,
                  highlights, history, historyIndex, llmProvider,
                  autoTranslate, translationDelay, settingsOps, debTimer,
                  hlTimers, delTimers, calls, counts, edits, cycles,
                  lastCommit >>

\* setUserSettings from the auto-translate checkbox.
setAutoTranslate ==
  /\ SettingsChange
  /\ autoTranslate' = ~autoTranslate
  /\ ev' = NoEvent
  /\ UNCHANGED << text, prev, debounced, lastEdited, tokenCount, isTranslating,
                  error, highlights, history, historyIndex, apiKeys,
                  llmProvider, translationDelay, keySaves, debTimer,
                  hlTimers, delTimers, calls, counts, edits, cycles,
                  lastCommit >>

\* setUserSettings from the delay slider (disabled when auto-translate is
\* off): both debounce effects re-run and restart their timers with the new
\* delay.
setTranslationDelay(d) ==
  /\ SettingsChange
  /\ autoTranslate
  /\ d # translationDelay
  /\ translationDelay' = d
  /\ debTimer' = Both(d)
  /\ ev' = NoEvent
  /\ UNCHANGED << text, prev, debounced, lastEdited, tokenCount, isTranslating,
                  error, highlights, history, historyIndex, apiKeys,
                  llmProvider, autoTranslate, keySaves, hlTimers, delTimers,
                  calls, counts, edits, cycles, lastCommit >>

\* The error toast is clicked: setError(null).
dismissError ==
  /\ error # "none"
  /\ error' = "none"
  /\ ev' = NoEvent
  /\ UNCHANGED << text, prev, debounced, lastEdited, tokenCount, isTranslating,
                  highlights, history, historyIndex, settingsVars, debTimer,
                  hlTimers, delTimers, calls, counts, edits, cycles,
                  lastCommit >>

\* 500 ms pass: possible only when no timer is due.
TimersLeft == { debTimer[p] : p \in { q \in Side : debTimer[q] >= 0 } }
              \cup { t.left : t \in BagToSet(hlTimers) }
              \cup { t.left : t \in delTimers }

\* The bag of timers b half a second later.
Elapsed(b) ==
  IF BagToSet(b) = {} THEN EmptyBag
  ELSE [ t \in { [ s EXCEPT !.left = @ - 1 ] : s \in BagToSet(b) } |->
           b[[ t EXCEPT !.left = @ + 1 ]] ]

Tick ==
  /\ TimersLeft # {}
  /\ 0 \notin TimersLeft
  /\ debTimer' = [ p \in Side |-> IF debTimer[p] > 0 THEN debTimer[p] - 1
                                  ELSE debTimer[p] ]
  /\ hlTimers' = Elapsed(hlTimers)
  /\ delTimers' = { [ t EXCEPT !.left = @ - 1 ] : t \in delTimers }
  /\ ev' = NoEvent
  /\ UNCHANGED << text, prev, debounced, lastEdited, tokenCount, isTranslating,
                  error, highlights, history, historyIndex, settingsVars,
                  calls, counts, edits, cycles, lastCommit >>

Init == AppInit /\ FnIdle

Next ==
  \/ \E p \in Side, t \in EditTexts : handleChange(p, t) /\ UNCHANGED fnVars
  \/ \E p \in Side : DebounceFire(p) /\ UNCHANGED fnVars
  \/ \E p \in Side : handleManualTranslate(p) /\ UNCHANGED fnVars
  \/ \E c \in calls, r \in Responses : Resolve(c, r) /\ UNCHANGED fnVars
  \/ \E t \in delTimers : DeletionFire(t) /\ UNCHANGED fnVars
  \/ \E q \in BagToSet(counts), a \in CountAnswers :
       AnswerCount(q, a) /\ UNCHANGED fnVars
  \/ \E t \in BagToSet(hlTimers) : HighlightClear(t) /\ UNCHANGED fnVars
  \/ handleUndo /\ UNCHANGED fnVars
  \/ handleRedo /\ UNCHANGED fnVars
  \/ handleClear /\ UNCHANGED fnVars
  \/ \E v \in Providers : setLlmProvider(v) /\ UNCHANGED fnVars
  \/ \E k \in Providers : setApiKeys(k) /\ UNCHANGED fnVars
  \/ handleSaveApiKeys /\ UNCHANGED fnVars
  \/ \E s \in BagToSet(keySaves), stored \in BOOLEAN :
       SaveApiKeysSettled(s, stored) /\ UNCHANGED fnVars
  \/ setAutoTranslate /\ UNCHANGED fnVars
  \/ \E d \in DelayTicks : setTranslationDelay(d) /\ UNCHANGED fnVars
  \/ dismissError /\ UNCHANGED fnVars
  \/ Tick /\ UNCHANGED fnVars

Spec == Init /\ [][Next]_vars

\* =========================================================================
\* Claims about the application (specification Spec)
\* =========================================================================

\* C1: when a translation call of pane P resolves successfully after a later
\* cycle of the same pane has committed, its result is discarded: the
\* opposite pane's text, both previous-committed texts and the history log
\* stay as the later cycle left them.
C1_SamePaneStaleResultDiscarded ==
  [][ (ev'.kind = "resolve" /\ ev'.ok /\ lastCommit[ev'.side] > ev'.cycle)
      => /\ text'[Other(ev'.side)] = text[Other(ev'.side)]
         /\ prev' = prev
         /\ history' = history
         /\ historyIndex' = historyIndex ]_vars

\* C2: when pane A's translation call resolves after a cycle of pane B that
\* started later has committed, A's result overwrites neither pane's text
\* nor either previous-committed text.
C2_CrossPaneStaleResultDiscarded ==
  [][ (ev'.kind = "resolve" /\ lastCommit[Other(ev'.side)] > ev'.cycle)
      => (text' = text /\ prev' = prev) ]_vars

\* C3: a cycle whose translation call fails, or whose output validation
\* rejects, ends with the error set and the translating flag cleared, and
\* neither its start nor its end changes the panes' texts, the
\* previous-committed texts, the highlights or the history log and cursor.
CallRejected(r) == r.kind = "error" \/ r = RespText(RefusalText)

C3_FailedCycleLeavesPanes ==
  [][ /\ (ev'.kind = "resolve" /\ CallRejected(ev'.resp))
         => /\ error' # "none"
            /\ isTranslating' = FALSE
            /\ UNCHANGED << text, prev, highlights, history, historyIndex >>
      /\ (calls' # calls /\ calls \subseteq calls')
         => UNCHANGED << text, prev, highlights, history, historyIndex >>
    ]_vars

C3_Witness ==
  /\ ev.kind = "resolve" /\ ev.resp = RespText(RefusalText)
  /\ error = "invalid" /\ ~isTranslating
  /\ history # << >>


\* The texts and token counts of history entry e, as pane states.
EntryTexts(e) == [ left |-> e.leftText, right |-> e.rightText ]
EntryTokens(e) == [ left |-> e.leftTokenCount, right |-> e.rightTokenCount ]

\* C11: undo and redo set lastEdited to none, and while lastEdited is none
\* (no keystroke since) a debounce firing issues no translation call,
\* schedules no deletion and leaves both panes' texts, the
\* previous-committed texts and the history log unchanged.
C11_RestoreStartsNoCycle ==
  [][ /\ ev'.kind \in { "undo", "redo" } => lastEdited' = "none"
      /\ (ev'.kind = "fire" /\ lastEdited = "none")
         => /\ calls' = calls
            /\ delTimers' = delTimers
            /\ UNCHANGED << text, prev, history, historyIndex >> ]_vars

\* The debounce of a restored pane text has fired after an undo.
C11_Witness ==
  /\ ev.kind = "fire" /\ ev.ok
  /\ lastEdited = "none"
  /\ historyIndex >= 0 /\ historyIndex < Len(history) - 1
  /\ text = EntryTexts(history[historyIndex + 1])
  /\ debounced[ev.side] = text[ev.side]

\* C12: an undo or redo that moves the cursor sets in one step both panes'
\* texts and both previous-committed texts to the texts of the entry at the
\* new cursor, and the token counts to the entry's counts.
C12_RestoreIsAtomic ==
  [][ ev'.kind \in { "undo", "redo" }
      => /\ history' = history
         /\ historyIndex' = historyIndex + (IF ev'.kind = "undo" THEN -1 ELSE 1)
         /\ text' = EntryTexts(history[historyIndex' + 1])
         /\ prev' = EntryTexts(history[historyIndex' + 1])
         /\ tokenCount' = EntryTokens(history[historyIndex' + 1]) ]_vars

\* A redo has just restored an entry that differs from the one before it in
\* both panes.
C12_Witness ==
  /\ ev.kind = "redo" /\ historyIndex = 1
  /\ text = EntryTexts(history[2]) /\ prev = text
  /\ history[1].leftText # history[2].leftText
  /\ history[1].rightText # history[2].rightText

\* C13: a debounce firing of pane P starts a cycle only if auto-translate is
\* on and lastEdited = P; any other firing changes P's token count only:
\* no call, no deferred deletion, and texts, previous-committed texts,
\* highlights and history stay as they are.
C13_CycleNeedsLastEdited ==
  [][ ev'.kind = "fire"
      => /\ (cycles' # cycles \/ calls' # calls \/ delTimers' # delTimers)
            => (autoTranslate /\ lastEdited = ev'.side)
         /\ ~(autoTranslate /\ lastEdited = ev'.side)
            => /\ UNCHANGED << text, prev, history, historyIndex, highlights,
                               isTranslating, error, calls, delTimers >>
               /\ tokenCount'[Other(ev'.side)] = tokenCount[Other(ev'.side)]
    ]_vars

\* The debounce of the pane a merge wrote into has fired while the user's
\* last keystroke was in the other pane.
C13_Witness ==
  /\ ev.kind = "fire" /\ ev.ok
  /\ autoTranslate /\ lastEdited = Other(ev.side)
  /\ history # << >>
  /\ text[ev.side] # Empty
  /\ text[ev.side] = EntryTexts(history[Len(history)])[ev.side]
  /\ PaneCount(ev.side, text[ev.side]) \in BagToSet(counts)
  /\ calls = {} /\ delTimers = {}

\* C14: a keystroke on pane P changes P's text and lastEdited only, and the
\* previous-committed texts change only when a cycle commits (a successful
\* translation or a deferred deletion), on undo, on redo or on clear.
C14_PrevChangesOnCommitOnly ==
  [][ /\ edits' # edits
         => /\ \E p \in Side : /\ lastEdited' = p
                               /\ text'[Other(p)] = text[Other(p)]
                               /\ text'[p] # text[p]
            /\ UNCHANGED << prev, debounced, tokenCount, isTranslating, error,
                            highlights, history, historyIndex, calls,
                            delTimers, hlTimers, counts >>
      /\ prev' # prev
         => \/ ev'.kind = "resolve" /\ ev'.ok
            \/ ev'.kind \in { "delete", "undo", "redo", "clear" } ]_vars

\* A keystroke has just been made in a pane whose previous-committed text
\* is not empty, and a failed cycle lies behind.
C14_Witness ==
  /\ edits = MaxEdits /\ lastEdited = "left"
  /\ debTimer.left = DebounceTicks
  /\ prev.left # Empty /\ text.left # prev.left
  /\ history # << >>

\* The call whose end is the step just taken, and what translateText
\* returned for it.
EndedCall == CHOOSE c \in calls : c.cycle = ev'.cycle
Returned(c) == translateTextResult(c.sent, ev'.resp).text

\* The entry a cycle of pane p with text src saves when the opposite pane
\* became opp: the texts of both panes.
HoldsTexts(e, p, src, opp) ==
  EntryTexts(e) = [ q \in Side |-> IF q = p THEN src ELSE opp ]

\* The countTokens request whose answer is the step just taken.
SavedCount ==
  CHOOSE q \in BagToSet(counts) : q.kind = "save" /\ q.cycle = ev'.cycle

\* The step saves the entry of a committed cycle: within the commit when
\* fetchTokenCount settles at once, else when its request is answered.
SavesEntry ==
  \/ ev'.kind = "save"
  \/ ev'.kind \in { "resolve", "delete" } /\ ev'.ok /\ counts' = counts

\* The highlight timers that ran in the step, and those it started.
TimersRun ==
  { t \in BagToSet(hlTimers) : CopiesIn(t, hlTimers') < CopiesIn(t, hlTimers) }
TimersSet ==
  { t \in BagToSet(hlTimers') : CopiesIn(t, hlTimers') > CopiesIn(t, hlTimers) }

\* ------------------------------------------------------------------------
\* First translation into a pane that a whole-line deletion has emptied
\* ------------------------------------------------------------------------
TxtB == << "b" >>

\* Answers of the provider: a text that shares nothing with "b", one that
\* begins with it, a failure.
FirstResponses == { RespText(<< "x" >>), RespText(<< "b", "x" >>), RespError }

\* The settled state after these steps from the initial state: "a\nb" is
\* typed into pane p and translated to "x"; the first line of p is removed
\* (text "b"), the deferred deletion splices the opposite pane to "" and
\* both previous-committed texts are ("b", ""); every timer has run out and
\* every request is answered.  edits, cycles and lastCommit count from this
\* state on.
FirstInit ==
  /\ apiKeys = AllKeys(TRUE) /\ llmProvider = "gemini"
  /\ autoTranslate = TRUE
  /\ translationDelay = DebounceTicks /\ settingsOps = 0
  /\ keySaves = EmptyBag
  /\ \E p \in Side :
       /\ text = [ q \in Side |-> IF q = p THEN TxtB ELSE Empty ]
       /\ prev = text
       /\ debounced = text
       /\ lastEdited = p
       /\ tokenCount = [ q \in Side |-> IF q = p THEN 7 ELSE 0 ]
       /\ history = << cycleEntry(p, TxtAB, << "x" >>, 0, 7),
                       cycleEntry(p, TxtB, Empty, 7, 0) >>
  /\ historyIndex = 1
  /\ isTranslating = FALSE /\ error = "none"
  /\ highlights = Both(<< >>)
  /\ debTimer = Both(-1)
  /\ hlTimers = EmptyBag /\ delTimers = {} /\ calls = {}
  /\ counts = EmptyBag
  /\ edits = 0 /\ cycles = 0 /\ lastCommit = Both(0)
  /\ ev = NoEvent
  /\ argOld = Empty /\ argNew = Empty /\ result = NoDiff /\ pc = "first"
  /\ nextId = 1 /\ histOps = 0 /\ trip = NoTrip

FirstNext ==
  \/ \E p \in Side, t \in EditTexts : handleChange(p, t) /\ UNCHANGED fnVars
  \/ \E p \in Side : DebounceFire(p) /\ UNCHANGED fnVars
  \/ \E c \in calls, r \in FirstResponses : Resolve(c, r) /\ UNCHANGED fnVars
  \/ \E t \in delTimers : DeletionFire(t) /\ UNCHANGED fnVars
  \/ \E q \in BagToSet(counts), a \in CountAnswers :
       AnswerCount(q, a) /\ UNCHANGED fnVars
  \/ \E t \in BagToSet(hlTimers) : HighlightClear(t) /\ UNCHANGED fnVars
  \/ Tick /\ UNCHANGED fnVars

SpecFirst == FirstInit /\ [][FirstNext]_vars

\* C15 (the highlight of the first translation, as stated): when the call of
\* a cycle that started on pane P with an empty previous-committed text
\* returns a translation and the opposite pane is empty at that moment, the
\* opposite pane becomes the translation and carries one Added highlight
\* that covers the whole translation.
C15_FirstTranslationHighlight ==
  [][ ( /\ ev'.kind = "resolve" /\ ev'.ok
        /\ EndedCall.branch = "first"
        /\ text[Other(EndedCall.side)] = Empty )
      => /\ text'[Other(EndedCall.side)] = Returned(EndedCall)
         /\ highlights'[Other(EndedCall.side)]
              = << [ start |-> 0, end |-> Len(Returned(EndedCall)),
                     type |-> "added" ] >> ]_vars

\* C21: a keystroke on pane P cancels P's pending debounce timer and starts
\* a new one of the full delay, and leaves the other pane's timer alone; a
\* timer loses 500 ms only as time passes; the debounced text of P changes
\* only when P's timer has run out, to the text of the last keystroke, and
\* the timer is then gone until the text changes again.  Keystrokes that
\* follow each other within the delay thus lead to one firing, one delay
\* after the last of them, as long as the configured delay is not changed.
C21_DebounceCoalesces ==
  [][ \A p \in Side :
        /\ edits' = edits + 1 /\ text'[p] # text[p]
           => /\ debTimer'[p] = translationDelay
              /\ debTimer'[Other(p)] = debTimer[Other(p)]
              /\ debounced' = debounced
        /\ ( /\ text'[p] = text[p] /\ debTimer'[p] # debTimer[p]
             /\ translationDelay' = translationDelay )
           => \/ /\ debTimer[p] > 0 /\ debTimer'[p] = debTimer[p] - 1
                 /\ debounced' = debounced /\ text' = text
              \/ /\ debTimer[p] = 0 /\ debTimer'[p] = -1
                 /\ ev'.kind = "fire" /\ ev'.side = p
        /\ text'[p] # text[p] => debTimer'[p] = translationDelay
        /\ debounced'[p] # debounced[p]
           => /\ debTimer[p] = 0 /\ debTimer'[p] = -1
              /\ debounced'[p] = text[p]
              /\ debounced'[Other(p)] = debounced[Other(p)] ]_vars

\* Two keystrokes on the left pane, the second within the delay of the
\* first, have led to one firing, which carries the second text and starts
\* the first cycle.
C21_Witness ==
  /\ ev.kind = "fire" /\ ev.side = "left" /\ ev.ok
  /\ edits = 2 /\ cycles = 1 /\ Cardinality(calls) = 1
  /\ apiKey /\ autoTranslate
  /\ text = [ left |-> TxtAB, right |-> Empty ]
  /\ debounced = text
  /\ debTimer = Both(-1)

\* The duration of a highlight of the given type, in ticks.
HighlightTicks(type) == IF type = "added" THEN AddedTicks ELSE RemovedTicks

\* C24: a pane never holds more than one highlight, a highlight that is set
\* takes the place of the pane's highlights, and a pane that holds a
\* highlight has a clear timer pending that runs out no later than the
\* highlight's duration after it was set (500 ms Added, 1000 ms Removed);
\* the timer empties the pane's highlights when it runs out.
C24_OneHighlightCleared ==
  /\ [](\A p \in Side :
          /\ Len(highlights[p]) <= 1
          /\ highlights[p] # << >>
             => \E t \in BagToSet(hlTimers) :
                  /\ t.side = p
                  /\ t.left <= HighlightTicks(highlights[p][1].type))
  /\ [][ /\ \A p \in Side :
              (highlights'[p] # highlights[p] /\ highlights'[p] # << >>)
              => /\ Len(highlights'[p]) = 1
                 /\ BagIn([ side |-> p,
                            left |-> HighlightTicks(highlights'[p][1].type) ],
                          hlTimers')
         /\ \A t \in TimersRun :
              t.left = 0 => highlights'[t.side] = << >>
         /\ \A t \in TimersSet :
              \/ t.left \in { AddedTicks, RemovedTicks }
              \/ BagIn([ t EXCEPT !.left = @ + 1 ], hlTimers) ]_vars

\* A second highlight has been set on a pane whose first highlight's timer
\* has not yet run: the pane holds one highlight and two timers.
C24_Witness ==
  /\ ev.kind = "resolve" /\ ev.ok
  /\ Len(highlights[Other(ev.side)]) = 1
  /\ Cardinality({ t \in BagToSet(hlTimers) : t.side = Other(ev.side) }) = 2

\* What undo, redo and clear act on: the log and its cursor, the panes'
\* texts, the previous-committed texts, the token counts and lastEdited.
restorable == << history, historyIndex, text, prev, tokenCount, lastEdited >>

\* C25: in a state whose cursor is at most 0 (an empty log included) no step
\* of handleUndo, and in a state whose cursor is on the last entry no step
\* of handleRedo, changes the log, the cursor, a pane's text, a
\* previous-committed text, a token count or lastEdited.
C25_UndoRedoNoOps ==
  /\ historyIndex <= 0
     => /\ ~ENABLED (handleUndo /\ restorable' # restorable)
        /\ undo(history, historyIndex) = historyIndex
  /\ historyIndex = Len(history) - 1
     => /\ ~ENABLED (handleRedo /\ restorable' # restorable)
        /\ redo(history, historyIndex) = historyIndex

\* The cursor is on the only entry of the log while the user has typed
\* since: the left pane no longer holds the entry's text and lastEdited is
\* set, so a restore of the entry would show.
C25_Witness ==
  /\ Len(history) = 1 /\ historyIndex = 0
  /\ lastEdited = "left"
  /\ text["left"] # history[1].leftText
  /\ ENABLED (handleUndo /\ UNCHANGED restorable)
  /\ ENABLED (handleRedo /\ UNCHANGED restorable)

\* C26: in every reachable state clear can be run, and the step of clear
\* empties the log, sets the cursor to -1, both panes' texts and both
\* previous-committed texts to empty, both token counts to 0 and lastEdited
\* to none.
C26_ClearResets ==
  /\ [](ENABLED handleClear)
  /\ [][ ev'.kind = "clear"
         => /\ history' = << >> /\ historyIndex' = -1
            /\ text' = Both(Empty) /\ prev' = Both(Empty)
            /\ tokenCount' = Both(0)
            /\ lastEdited' = "none" ]_vars

\* Clear has just run after a cycle had committed.
C26_Witness ==
  /\ ev.kind = "clear"
  /\ \E p \in Side : lastCommit[p] > 0
  /\ history = << >> /\ historyIndex = -1
  /\ text = Both(Empty) /\ prev = Both(Empty)

\* C32: a committing cycle appends its entry and keeps every entry of the
\* log, unless the log is at capacity or the cursor is below the newest entry
\* (an append after an undo); so after two overlapping cycles have committed
\* both entries are in the log.
C32_NoLostHistoryEntries ==
  [][ ( /\ SavesEntry
        /\ Len(history) < MaxHistory
        /\ historyIndex = Len(history) - 1 )
      => /\ Len(history') > Len(history)
         /\ SubSeq(history', 1, Len(history)) = history ]_vars

\* C33: a step that follows a clear and is not a keystroke leaves both
\* panes, both previous-committed texts and the history log empty, also when
\* a translation call or a deferred deletion was pending at the clear.
C33_ClearStaysEmpty ==
  [][ (ev.kind = "clear" /\ edits' = edits)
      => /\ text' = Both(Empty)
         /\ prev' = Both(Empty)
         /\ history' = << >> ]_vars

\* Pane o shows a highlight that was set no tick ago: the Added highlight
\* of the commit just made, or the Removed highlight of a deferred deletion
\* whose delay has not started to run down.
FreshAdded(o) ==
  /\ ev.kind = "resolve" /\ ev.ok /\ Other(ev.side) = o
  /\ highlights[o] # << >>
FreshRemoved(o) ==
  /\ highlights[o] # << >> /\ highlights[o][1].type = "removed"
  /\ \E d \in delTimers : d.side = Other(o) /\ d.left = DeletionTicks

\* C37: a highlight that was just set is not cleared before its duration
\* has passed, unless a newer highlight of the same pane replaces it (a
\* commit, or a cycle that starts with a deferred deletion); the clear timer
\* of an earlier highlight does not remove it.
C37_HighlightStaysFullDuration ==
  [][ \A o \in Side :
        ((FreshAdded(o) \/ FreshRemoved(o)) /\ highlights'[o] # highlights[o])
        => (ev'.kind = "resolve" \/ cycles' = cycles + 1) ]_vars

\* C39: isTranslating is true exactly in the states in which a translation
\* call is in flight, also when calls overlap and end in any order.
C39_TranslatingFlagAccurate ==
  isTranslating <=> calls # {}

\* =========================================================================
\* The diff detector on its own (specification SpecDiff)
\* =========================================================================
AppIdle == AppInit

DiffInit ==
  /\ AppIdle
  /\ argOld \in Texts /\ argNew \in Texts
  /\ result = NoDiff /\ pc = "diff"
  /\ nextId = 1 /\ histOps = 0 /\ trip = NoTrip

DiffStep ==
  /\ pc = "diff"
  /\ result' = findDifferences(argOld, argNew)
  /\ pc' = "diffDone"
  /\ UNCHANGED << appVars, argOld, argNew, nextId, histOps, trip >>

SpecDiff == DiffInit /\ [][DiffStep]_vars

\* Replace lines [d.start, d.oldEnd] of oldText by lines [d.start, d.end] of
\* newText.
Resplice(oldText, newText, d) ==
  Join(Slice(Split(oldText), 0, d.start)
       \o Slice(Split(newText), d.start, d.end + 1)
       \o SliceFrom(Split(oldText), d.oldEnd + 1))

\* C4: for all different texts old and new, splicing new's lines
\* [d.start, d.end] into old's lines in place of [d.start, d.oldEnd] and
\* joining with newline gives new.
C4_DiffRoundTrip ==
  (pc = "diffDone" /\ argOld # argNew)
    => Resplice(argOld, argNew, result) = argNew

C4_Witness ==
  /\ pc = "diffDone" /\ result.some
  /\ result.start > 0
  /\ result.end > result.start
  /\ result.oldEnd = result.start
  /\ result.oldEnd < Len(Split(argOld)) - 1

\* C5: findDifferences returns null exactly when the two texts are the same
\* string, and a DiffResult for every other pair, also when changedText is
\* empty.
C5_NullIffIdentical ==
  pc = "diffDone" => ((result = NoDiff) <=> (argOld = argNew))
                     /\ (argOld # argNew => result.some)

C5_Witness ==
  /\ pc = "diffDone" /\ argOld # argNew
  /\ result.some /\ result.changedText = Empty

\* The lines of text b are the lines of text a followed by one or more
\* lines.
LinesAppended(a, b) ==
  /\ Len(Split(b)) > Len(Split(a))
  /\ SubSeq(Split(b), 1, Len(Split(a))) = Split(a)

\* C27: when the new text is the old text followed by appended lines the
\* diff has oldEnd < start; when the old text is the new text followed by
\* removed lines the diff has an empty changedText and end < start.
C27_DiffEdgeCases ==
  pc = "diffDone"
  => /\ LinesAppended(argOld, argNew)
        => (result.some /\ result.oldEnd < result.start)
     /\ LinesAppended(argNew, argOld)
        => /\ result.some
           /\ result.changedText = Empty
           /\ result.end < result.start

\* Two lines, the first of them blank, were removed at the end of a text of
\* three lines.
C27_Witness ==
  /\ pc = "diffDone"
  /\ argNew = TxtA /\ argOld = << "a", NL, NL, "b" >>
  /\ result.start = 1 /\ result.end = 0 /\ result.oldEnd = 2

\* The number of leading lines two texts have in common.
CommonPrefixLines(a, b) ==
  CHOOSE k \in 0..Min(Len(Split(a)), Len(Split(b))) :
    /\ SubSeq(Split(a), 1, k) = SubSeq(Split(b), 1, k)
    /\ (k < Min(Len(Split(a)), Len(Split(b)))
        => Split(a)[k + 1] # Split(b)[k + 1])

\* C35: for every diff d of two different texts, d.start is the number of
\* common leading lines, d.oldEnd lies in [d.start - 1, old lines - 1],
\* d.end lies in [d.start - 1, new lines - 1], and the old and the new range
\* are not both empty.
C35_DiffBounds ==
  (pc = "diffDone" /\ argOld # argNew)
  => /\ result.some
     /\ result.start = CommonPrefixLines(argOld, argNew)
     /\ 0 <= result.start
     /\ result.start <= Min(Len(Split(argOld)), Len(Split(argNew)))
     /\ result.start - 1 <= result.oldEnd
     /\ result.oldEnd <= Len(Split(argOld)) - 1
     /\ result.start - 1 <= result.end
     /\ result.end <= Len(Split(argNew)) - 1
     /\ (result.oldEnd >= result.start \/ result.end >= result.start)

\* Two lines were appended to a one-line text: the old range is empty
\* (oldEnd = start - 1) and the new range reaches the last line.
C35_Witness ==
  /\ pc = "diffDone"
  /\ argOld = TxtA /\ argNew = << "a", NL, "b", NL, "a" >>
  /\ result.start = 1 /\ result.oldEnd = 0 /\ result.end = 2

\* =========================================================================
\* The classification of a sync cycle on its own (specification SpecCycle)
\* =========================================================================
CycleInit ==
  /\ AppIdle
  /\ argOld \in Texts /\ argNew \in Texts
  /\ result = NoDiff /\ pc = "cycle"
  /\ nextId = 1 /\ histOps = 0 /\ trip = NoTrip

\* The branch a cycle takes for previous-committed text argOld and debounced
\* text argNew, and whether translateText issues a call for it.
CycleStep ==
  /\ pc = "cycle"
  /\ LET plan == performTranslationBranch(argOld, argNew)
     IN  result' = [ branch |-> plan.branch,
                     sends |-> plan.branch \in { "first", "incremental", "partial" }
                               /\ ~translateTextSkips(plan.sendText, apiKey),
                     diff |-> plan.diff ]
  /\ pc' = "cycleDone"
  /\ UNCHANGED << appVars, argOld, argNew, nextId, histOps, trip >>

SpecCycle == CycleInit /\ [][CycleStep]_vars

RECURSIVE DropLines(_, _, _)
DropLines(lines, D, k) ==
  IF k > Len(lines) THEN << >>
  ELSE (IF k \in D THEN << >> ELSE << lines[k] >>) \o DropLines(lines, D, k + 1)

\* newText is oldText with one or more whole lines, none of them the first,
\* removed and nothing else changed.
LinesRemoved(oldText, newText) ==
  LET oldLines == Split(oldText)
  IN  \E D \in SUBSET (2..Len(oldLines)) :
        D # {} /\ Split(newText) = DropLines(oldLines, D, 1)

\* C6: every edit that only removes whole lines from the middle or the end
\* takes the whole-line-removal path and issues no translation call.
C6_LineRemovalIsWholeLine ==
  (pc = "cycleDone" /\ LinesRemoved(argOld, argNew))
    => (result.branch = "wholeLine" /\ ~result.sends)

\* The text left when lines first..last (0-based) are taken out of text t.
WithoutLines(t, first, last) ==
  Join(Slice(Split(t), 0, first) \o SliceFrom(Split(t), last + 1))

\* C29: a cycle takes the whole-line-removal path with diff d only when the
\* new text is the old text with lines [d.start, d.oldEnd] removed, so an
\* edit that changes a line that remains is never handled by splicing alone.
C29_WholeLineRemovalSound ==
  (pc = "cycleDone" /\ result.branch = "wholeLine")
    => argNew = WithoutLines(argOld, result.diff.start, result.diff.oldEnd)

\* C30: every cycle whose previous-committed text is non-empty and differs
\* from the current text takes the incremental path or a deletion path; none
\* is skipped without translation, merge or update of the committed text.
C30_ClassificationExhaustive ==
  (pc = "cycleDone" /\ argOld # Empty /\ argOld # argNew)
    => result.branch \in { "incremental", "wholeLine", "partial" }

\* =========================================================================
\* One sync cycle after a committed pair (specification SpecFlow): the
\* first translation of text old has committed opp into the opposite pane,
\* every timer of that cycle has run, and the user has just typed new.
\* =========================================================================
MaxFlowLines == 3   \* lines of the texts old, new and opp

\* The texts of pane P: up to MaxFlowLines non-blank lines.
FlowLineSet == LineSet \ { Empty }
FlowTexts ==
  { Join(ls) : ls \in UNION { [1..k -> FlowLineSet] : k \in 1..MaxFlowLines } }

\* The opposite pane's text: n different lines.
OppLines == << << "p" >>, << "q" >>, << "r" >>, << "s" >>, << "t" >> >>
OppTexts == { Join(SubSeq(OppLines, 1, n)) : n \in 1..MaxFlowLines }

\* Answers of the provider: one line, two lines, a failure.
FlowResponses == { RespText(<< "x" >>), RespText(<< "x", NL, "y" >>), RespError }

FlowInit ==
  /\ apiKeys = AllKeys(TRUE) /\ llmProvider = "gemini"
  /\ autoTranslate = TRUE
  /\ translationDelay = DebounceTicks /\ settingsOps = 0
  /\ keySaves = EmptyBag
  /\ \E p \in Side, old \in FlowTexts, new \in FlowTexts \cup { Empty },
          opp \in OppTexts :
       /\ Len(Trim(old)) > 0 /\ new # old
       /\ text = [ q \in Side |-> IF q = p THEN new ELSE opp ]
       /\ prev = [ q \in Side |-> IF q = p THEN old ELSE opp ]
       /\ debounced = prev
       /\ lastEdited = p
       /\ tokenCount = [ q \in Side |-> estimateTokens(prev[q]) ]
       /\ history = << cycleEntry(p, old, opp, 0, estimateTokens(opp)) >>
       /\ debTimer = [ q \in Side |-> IF q = p THEN DebounceTicks ELSE -1 ]
       /\ lastCommit = [ q \in Side |-> IF q = p THEN 1 ELSE 0 ]
  /\ historyIndex = 0
  /\ isTranslating = FALSE /\ error = "none"
  /\ highlights = Both(<< >>)
  /\ hlTimers = EmptyBag /\ delTimers = {} /\ calls = {}
  /\ counts = EmptyBag
  /\ edits = 1 /\ cycles = 1
  /\ ev = NoEvent
  /\ argOld = Empty /\ argNew = Empty /\ result = NoDiff /\ pc = "flow"
  /\ nextId = 1 /\ histOps = 0 /\ trip = NoTrip

FlowNext ==
  \/ \E p \in Side, t \in EditTexts : handleChange(p, t) /\ UNCHANGED fnVars
  \/ \E p \in Side : DebounceFire(p) /\ UNCHANGED fnVars
  \/ \E c \in calls, r \in FlowResponses : Resolve(c, r) /\ UNCHANGED fnVars
  \/ \E t \in delTimers : DeletionFire(t) /\ UNCHANGED fnVars
  \/ \E q \in BagToSet(counts), a \in CountAnswers :
       AnswerCount(q, a) /\ UNCHANGED fnVars
  \/ \E t \in BagToSet(hlTimers) : HighlightClear(t) /\ UNCHANGED fnVars
  \/ Tick /\ UNCHANGED fnVars

SpecFlow == FlowInit /\ [][FlowNext]_vars

\* ------------------------------------------------------------------------
\* Claims on one cycle after a committed pair
\* ------------------------------------------------------------------------
\* The lines of text t with 0-based index below k, and those with 0-based
\* index above k.
LinesBefore(t, k) == SubSeq(Split(t), 1, Min(k, Len(Split(t))))
LinesAfter(t, k) == SubSeq(Split(t), k + 2, Len(Split(t)))

\* The opposite pane's lines when lines [from, to] are replaced by the lines
\* of translated.
Replaced(opp, from, to, translated) ==
  Join(LinesBefore(opp, from) \o Split(translated) \o LinesAfter(opp, to))

\* C16: a cycle on pane P that classifies as an incremental update with diff
\* d sends d.changedText to the translator; on success the opposite pane
\* becomes the lines before d.start of its committed text, then the lines of
\* the translation, then the lines after d.oldEnd of its committed text,
\* however many lines the translation has.
C16_IncrementalMerge ==
  [][ /\ \A c \in calls' \ calls :
           c.branch = "incremental"
           => /\ c.diff = findDifferences(prev[c.side], text[c.side])
              /\ c.sent = sanitizeInput(c.diff.changedText)
              /\ c.prevOpp = prev[Other(c.side)]
      /\ (ev'.kind = "resolve" /\ ev'.ok /\ EndedCall.branch = "incremental")
         => LET c == EndedCall
            IN  text'[Other(c.side)]
                  = Replaced(c.prevOpp, c.diff.start, c.diff.oldEnd,
                             Returned(c)) ]_vars

\* An incremental update has replaced the middle line of a three-line
\* opposite pane by a translation of two lines.
C16_Witness ==
  /\ pc = "flow" /\ ev.kind = "resolve" /\ ev.ok
  /\ ev.resp = RespText(<< "x", NL, "y" >>)
  /\ Len(history) = 1 /\ ~NoneIn(counts)
  /\ Len(prev[ev.side]) >= Len(EntryTexts(history[1])[ev.side])
  /\ EntryTexts(history[1])[Other(ev.side)] = Join(SubSeq(OppLines, 1, 3))
  /\ Split(text[Other(ev.side)])
       = << << "p" >>, << "x" >>, << "y" >>, << "r" >> >>

\* ls is the beginning, respectively the end, of the line sequence of t.
StartsWithLines(t, ls) ==
  Len(ls) <= Len(Split(t)) /\ SubSeq(Split(t), 1, Len(ls)) = ls
EndsWithLines(t, ls) ==
  /\ Len(ls) <= Len(Split(t))
  /\ SubSeq(Split(t), Len(Split(t)) - Len(ls) + 1, Len(Split(t))) = ls

\* C34: an incremental merge with diff d keeps, in order, every line before
\* d.start and every line after d.oldEnd of the opposite pane's text as it
\* stood immediately before the merge.
C34_IncrementalMergeFrame ==
  [][ (ev'.kind = "resolve" /\ ev'.ok /\ EndedCall.branch = "incremental")
      => LET c == EndedCall
             o == Other(c.side)
         IN  /\ StartsWithLines(text'[o], LinesBefore(text[o], c.diff.start))
             /\ EndsWithLines(text'[o], LinesAfter(text[o], c.diff.oldEnd)) ]_vars

\* The deferred deletion whose timer is the step just taken.
FiredDeletion == CHOOSE t \in delTimers : t.cycle = ev'.cycle

\* The sync effect of pane p runs in this step and classifies the edit as a
\* removal of whole lines.
ClassifiesWholeLine(p) ==
  /\ ev'.kind = "fire" /\ ev'.side = p /\ ev'.ok
  /\ autoTranslate /\ lastEdited = p
  /\ performTranslationBranch(prev[p], text[p]).branch = "wholeLine"

\* C17: when a cycle on pane P classifies as a whole-line removal with diff
\* d, a Removed highlight is set on the opposite pane in that step and the
\* deletion is scheduled 1000 ms ahead without touching a text; the
\* deletion runs only when its delay has elapsed, then makes the opposite
\* pane its previous text without lines [d.start, d.oldEnd] and appends a
\* history entry with both texts, at once or when the token count of the
\* new text has arrived; no step of the flow issues a translation call.
C17_WholeLineDeletionFlow ==
  [][ /\ \A p \in Side :
           ClassifiesWholeLine(p)
           => /\ Len(highlights'[Other(p)]) = 1
              /\ highlights'[Other(p)][1].type = "removed"
              /\ [ side |-> Other(p), left |-> RemovedTicks ] \in TimersSet
              /\ \E t \in delTimers' \ delTimers :
                   /\ t.side = p /\ t.left = DeletionTicks
                   /\ t.diff = findDifferences(prev[p], text[p])
                   /\ t.prevOpp = prev[Other(p)]
              /\ text' = text /\ history' = history
              /\ calls' = calls
      /\ ev'.kind = "delete"
         => LET t == FiredDeletion
                o == Other(t.side)
            IN  /\ t.left = 0
                /\ text'[o] = Join(LinesBefore(t.prevOpp, t.diff.start)
                                   \o LinesAfter(t.prevOpp, t.diff.oldEnd))
                /\ IF counts' = counts
                   THEN /\ HoldsTexts(history'[Len(history')], t.side, t.src,
                                      text'[o])
                        /\ historyIndex' = Len(history') - 1
                   ELSE BagIn(SaveCount(t, text'[o]), counts')
                /\ calls' = calls
      /\ (ev'.kind = "save" /\ SavedCount.branch = "wholeLine")
         => /\ HoldsTexts(history'[Len(history')], SavedCount.side,
                          SavedCount.src, SavedCount.text)
            /\ historyIndex' = Len(history') - 1 ]_vars

\* Every range of the highlights array hs lies inside the text t.
InsideText(hs, t) ==
  \A k \in 1..Len(hs) :
    0 <= hs[k].start /\ hs[k].start <= hs[k].end /\ hs[k].end <= Len(t)

\* C36: the Added highlight set by a commit lies inside the merged text; for
\* the line range of every whole-line removal, whatever the number of lines
\* of the opposite pane, computing the Removed highlight does not fail and
\* its range lies inside the opposite pane's text.
C36_HighlightsInsideText ==
  [][ \A p \in Side :
        /\ (ev'.kind = "resolve" /\ ev'.ok /\ ev'.side = p)
           => InsideText(highlights'[Other(p)], text'[Other(p)])
        /\ ClassifiesWholeLine(p)
           => /\ ~cycleStart(prev[p], text[p], prev[Other(p)], apiKey, TRUE)
                    .removed.threw
              /\ InsideText(cycleStart(prev[p], text[p], prev[Other(p)],
                                       apiKey, TRUE).removed.highlights,
                            prev[Other(p)]) ]_vars

\* The lines of text t with 0-based index in [from, to).
LinesFromTo(t, from, to) == SubSeq(Split(t), from + 1, Min(to, Len(Split(t))))

\* C18: a cycle on pane P whose text shrank and that is not a whole-line
\* removal sends the lines [d.start, max(d.start + 1, d.end + 1)) of the new
\* text; on success the opposite pane becomes its committed text with lines
\* [d.start, d.oldEnd] replaced by the lines of the translation, as in the
\* incremental case.
C18_PartialEditMerge ==
  [][ /\ \A c \in calls' \ calls :
           c.branch = "partial"
           => /\ c.diff = findDifferences(prev[c.side], text[c.side])
              /\ c.sent = sanitizeInput(Join(LinesFromTo(text[c.side],
                            c.diff.start,
                            Max(c.diff.start + 1, c.diff.end + 1))))
      /\ (ev'.kind = "resolve" /\ ev'.ok /\ EndedCall.branch = "partial")
         => LET c == EndedCall
            IN  text'[Other(c.side)]
                  = Replaced(c.prevOpp, c.diff.start, c.diff.oldEnd,
                             Returned(c)) ]_vars

\* C19: when the user has typed into a pane after a whole-line deletion
\* was scheduled, the step in which its timer runs leaves the opposite
\* pane's text, both previous-committed texts and the history unchanged.
C19_EditCancelsDeletion ==
  [][ (ev'.kind = "delete" /\ FiredDeletion.edits < edits)
      => /\ text'[Other(FiredDeletion.side)] = text[Other(FiredDeletion.side)]
         /\ prev' = prev
         /\ history' = history /\ historyIndex' = historyIndex ]_vars

\* =========================================================================
\* The manual handler against the sync effect (specification SpecManual):
\* both are run on one state, a committed pair (old, opp) with the text new
\* typed into pane P, with or without an API key for the selected provider.
\* =========================================================================
\* What a cycle that started as start does to the state once the provider
\* has answered r or the deletion delay has elapsed: the branch it acts on
\* ("none" when it neither calls the translator nor schedules a deletion),
\* whether it commits, and the opposite pane's text afterwards.  A commit
\* sets the previous-committed texts to (src, opp) and saves them as a
\* history entry.
cycleOutcome(start, prevOpp, r) ==
  LET plan == start.plan
      res  == translateTextResult(sanitizeInput(plan.sendText), r)
      idle(b) == [ branch |-> b, commits |-> FALSE, opp |-> prevOpp ]
  IN  IF start.sends
      THEN IF res.ok
           THEN [ branch |-> plan.branch, commits |-> TRUE,
                  opp |-> mergedText(plan.branch, prevOpp, res.text, plan.diff,
                                     plan.modifiedLen) ]
           ELSE idle(plan.branch)
      ELSE IF start.deletes
      THEN [ branch |-> plan.branch, commits |-> TRUE,
             opp |-> splicedText(prevOpp, plan.diff) ]
      ELSE idle("none")

ManualInit ==
  /\ apiKeys \in { AllKeys(FALSE), AllKeys(TRUE) }
  /\ llmProvider \in Providers
  /\ autoTranslate \in BOOLEAN
  /\ translationDelay = DebounceTicks /\ settingsOps = 0
  /\ keySaves = EmptyBag
  /\ \E p \in Side, old \in FlowTexts \cup { Empty }, new \in FlowTexts,
        opp \in OppTexts \cup { Empty } :
       /\ (old = Empty) <=> (opp = Empty)
       /\ new # old
       /\ text = [ q \in Side |-> IF q = p THEN new ELSE opp ]
       /\ prev = [ q \in Side |-> IF q = p THEN old ELSE opp ]
       /\ debounced = text
       /\ lastEdited = p
       /\ tokenCount = [ q \in Side |-> IF apiKey THEN estimateTokens(text[q])
                                        ELSE 0 ]
       /\ history = IF old = Empty THEN << >>
                    ELSE << cycleEntry(p, old, opp, 0, tokenCount[Other(p)]) >>
       /\ historyIndex = Len(history) - 1
       /\ lastCommit = [ q \in Side |-> IF q = p /\ old # Empty THEN 1 ELSE 0 ]
       /\ cycles = IF old = Empty THEN 0 ELSE 1
  /\ isTranslating = FALSE /\ error = "none"
  /\ highlights = Both(<< >>)
  /\ debTimer = Both(-1)
  /\ hlTimers = EmptyBag /\ delTimers = {} /\ calls = {}
  /\ counts = EmptyBag
  /\ edits = 1
  /\ ev = NoEvent
  /\ argOld = Empty /\ argNew = Empty /\ result = NoDiff /\ pc = "manual"
  /\ nextId = 1 /\ histOps = 0 /\ trip = NoTrip

\* The sync effect of the edited pane (auto-translate on) and the manual
\* handler of that pane (button enabled: the pane is not empty), each run on
\* the current state, with the provider's answer r.
ManualStep ==
  /\ pc = "manual"
  /\ \E r \in FlowResponses :
       LET p == lastEdited
           o == Other(p)
           auto   == cycleStart(prev[p], text[p], prev[o], apiKey, TRUE)
           manual == cycleStart(prev[p], text[p], prev[o], apiKey, apiKey)
       IN  result' = [ auto |-> cycleOutcome(auto, prev[o], r),
                       manual |-> cycleOutcome(manual, prev[o], r) ]
  /\ pc' = "manualDone"
  /\ UNCHANGED << appVars, argOld, argNew, nextId, histOps, trip >>

SpecManual == ManualInit /\ [][ManualStep]_vars

\* C20: on one state (previous-committed texts, text of pane P, opposite
\* text) the manual translate of P acts on the same branch as the sync effect
\* of P in auto mode, and commits the same opposite text, hence the same
\* previous-committed texts and history entry.
C20_ManualEqualsAuto ==
  pc = "manualDone" => result.manual = result.auto

\* =========================================================================
\* What reaches the translator (specification SpecSend): the application
\* with a key and auto-translate on, the user typing blank texts, texts
\* that carry a role marker and plain texts of one and two lines.
\* =========================================================================
SendTexts ==
  { << " " >>, << NL >>, << " ", "a" >>, TxtA, << "a", NL, "a" >>,
    StrUser \o << ":" >>, StrUser \o << ":", " ", "a" >> }

SendInit ==
  /\ AppIdle
  /\ argOld = Empty /\ argNew = Empty /\ result = NoDiff /\ pc = "send"
  /\ nextId = 1 /\ histOps = 0 /\ trip = NoTrip

SendNext ==
  \/ \E p \in Side, t \in SendTexts : handleChange(p, t) /\ UNCHANGED fnVars
  \/ \E p \in Side : DebounceFire(p) /\ UNCHANGED fnVars
  \/ \E c \in calls, r \in Responses : Resolve(c, r) /\ UNCHANGED fnVars
  \/ \E t \in delTimers : DeletionFire(t) /\ UNCHANGED fnVars
  \/ \E q \in BagToSet(counts), a \in CountAnswers :
       AnswerCount(q, a) /\ UNCHANGED fnVars
  \/ \E t \in BagToSet(hlTimers) : HighlightClear(t) /\ UNCHANGED fnVars
  \/ Tick /\ UNCHANGED fnVars

SpecSend == SendInit /\ [][SendNext]_vars

\* The sync effect of pane p runs in this step and reaches translateText
\* with the text t.
TranslatesText(p, t) ==
  /\ ev'.kind = "fire" /\ ev'.side = p /\ ev'.ok
  /\ autoTranslate /\ lastEdited = p
  /\ performTranslationBranch(prev[p], text[p]).branch
       \in { "first", "incremental", "partial" }
  /\ performTranslationBranch(prev[p], text[p]).sendText = t

\* C22: the text a translation call carries is never empty, and a cycle
\* whose text to translate is empty or whitespace-only starts no call,
\* shows no error and leaves the panes, the previous-committed texts and the
\* history unchanged.
C22_NoEmptyTextSent ==
  [][ /\ \A c \in calls' \ calls : c.sent # Empty
      /\ \A p \in Side, t \in SendTexts :
           (TranslatesText(p, t) /\ Len(Trim(t)) = 0)
           => /\ calls' = calls /\ isTranslating' = isTranslating
              /\ error' = error
              /\ text' = text /\ prev' = prev
              /\ history' = history /\ historyIndex' = historyIndex ]_vars

\* performTranslation of pane p, if it ran now, would issue a call or
\* schedule the deferred deletion.
CycleWouldAct(p) ==
  \/ cycleStart(prev[p], text[p], prev[Other(p)], apiKey, TRUE).sends
  \/ cycleStart(prev[p], text[p], prev[Other(p)], apiKey, TRUE).deletes

\* C31: with auto-translate on, when the debounce timer of pane P fires for
\* a text the user typed into P (it differs from P's previous-committed
\* text), a sync cycle for that text starts, whatever was typed into the
\* other pane in between.
C31_EditStartsCycle ==
  [][ \A p \in Side :
        ( /\ ev'.kind = "fire" /\ ev'.side = p /\ ev'.ok
          /\ autoTranslate
          /\ text[p] # prev[p]
          /\ CycleWouldAct(p) )
        => cycles' = cycles + 1 ]_vars

\* =========================================================================
\* Output validation on its own (specification SpecValidate): translateText
\* from the provider's answer on, for texts around the two limits of the
\* length rule and for refusals.
\* =========================================================================
MaxMargin == 4   \* lengths up to this far below and above each limit

Fill(c, n) == [ k \in 1..n |-> c ]

\* Sanitized texts sent to the provider.
ValidateInputs ==
  { Fill("a", n) :
      n \in (SuspiciousInputLen - MaxMargin)..(SuspiciousInputLen + MaxMargin) }

\* Answers that match one of the refusal patterns: shorter than the output
\* limit, longer, with capitals, inside a sentence.
RefusalOutputs ==
  { StrIm \o Sp \o StrSorry,
    << "I" >> \o Sp \o StrCannot \o Sp \o StrAssist,
    StrAs \o Sp \o << "a", "n" >> \o Sp \o StrAi \o Sp \o Fill("x", 3),
    Fill("x", 2) \o Sp \o StrIam \o Sp \o << "a" >> \o Sp \o StrAssistant }

\* Answers that match none.
PlainOutputs ==
  { Fill("x", n) :
      n \in (SuspiciousOutputLen - MaxMargin)..(SuspiciousOutputLen + MaxMargin) }
  \cup { StrSorry, StrAs \o Sp \o StrAi }

ValidateInit ==
  /\ AppIdle
  /\ argOld \in ValidateInputs
  /\ argNew \in RefusalOutputs \cup PlainOutputs
  /\ result = NoDiff /\ pc = "validate"
  /\ nextId = 1 /\ histOps = 0 /\ trip = NoTrip

\* translateText for the sanitized text argOld once the provider answered
\* argNew.
ValidateStep ==
  /\ pc = "validate"
  /\ result' = translateTextResult(argOld, RespText(argNew))
  /\ pc' = "validateDone"
  /\ UNCHANGED << appVars, argOld, argNew, nextId, histOps, trip >>

SpecValidate == ValidateInit /\ [][ValidateStep]_vars

\* C23: a translation is rejected, with the outcome of a failed call (no
\* text returned), exactly when the input is longer than 100 characters and
\* the output shorter than 10, or the output matches a refusal pattern; an
\* input of exactly 100 characters or an output of exactly 10 does not
\* trigger the length rule.
C23_ValidationBoundaries ==
  pc = "validateDone"
  => /\ result.ok <=> ~( \/ (Len(argOld) > 100 /\ Len(argNew) < 10)
                         \/ argNew \in RefusalOutputs )
     /\ result.ok => result.text = argNew
     /\ ~result.ok
        => /\ result.text = translateTextResult(argOld, RespError).text
           /\ result.error # "none"
     /\ (Len(argOld) = 100 \/ Len(argNew) = 10) /\ argNew \in PlainOutputs
        => result.ok

\* An input of exactly 100 characters with an answer of 9 has been accepted.
C23_Witness ==
  /\ pc = "validateDone"
  /\ Len(argOld) = 100 /\ Len(argNew) = 9 /\ argNew \in PlainOutputs
  /\ result.ok

\* =========================================================================
\* Edits on one pane with a line-by-line translator (specification
\* SpecSync): every cycle runs to its end before the next keystroke, and the
\* provider answers each line it receives with that line's translation.
\* =========================================================================
\* The translation of a character; a line break stays a line break, so a
\* text of n lines is answered with n lines.
TranslateChar(ch) == IF ch = "a" THEN "x" ELSE IF ch = "b" THEN "y" ELSE ch
Translate(t) == [ k \in 1..Len(t) |-> TranslateChar(t[k]) ]

\* Answers to a countTokens request: a count, a failure.
SyncCounts == { CountOf(7), CountError }

\* No cycle is on its way: no timer is pending and no call is in flight.
Settled ==
  /\ calls = {} /\ delTimers = {} /\ NoneIn(hlTimers) /\ NoneIn(counts)
  /\ debTimer = Both(-1)

SyncInit ==
  /\ AppIdle
  /\ argOld = Empty /\ argNew = Empty /\ result = NoDiff /\ pc = "sync"
  /\ nextId = 1 /\ histOps = 0 /\ trip = NoTrip

\* No cycle is on its way, but a debounce timer may still run that will
\* fire without a change of the debounced text (the timers of the mount).
Quiet ==
  /\ calls = {} /\ delTimers = {} /\ NoneIn(hlTimers) /\ NoneIn(counts)
  /\ \A q \in Side : debTimer[q] >= 0 => debounced[q] = text[q]

\* A keystroke on pane p, the pane of every earlier keystroke, once the cycle
\* of the keystroke before has ended.
SyncEdit(p, t) ==
  /\ Quiet
  /\ lastEdited \in { "none", p }
  /\ handleChange(p, t)

SyncNext ==
  \/ \E p \in Side, t \in FlowTexts : SyncEdit(p, t) /\ UNCHANGED fnVars
  \/ \E p \in Side : DebounceFire(p) /\ UNCHANGED fnVars
  \/ \E c \in calls : Resolve(c, RespText(Translate(c.sent))) /\ UNCHANGED fnVars
  \/ \E t \in delTimers : DeletionFire(t) /\ UNCHANGED fnVars
  \/ \E q \in BagToSet(counts), a \in SyncCounts :
       AnswerCount(q, a) /\ UNCHANGED fnVars
  \/ \E t \in BagToSet(hlTimers) : HighlightClear(t) /\ UNCHANGED fnVars
  \/ Tick /\ UNCHANGED fnVars

SpecSync == SyncInit /\ [][SyncNext]_vars

\* C28: with a translator that answers line by line, once the cycle of the
\* last keystroke on pane P has ended the opposite pane holds the
\* line-by-line translation of P's text.
C28_IncrementalEqualsFull ==
  \A p \in Side :
    (Settled /\ lastEdited = p /\ debounced[p] = text[p])
    => text[Other(p)] = Translate(text[p])

\* =========================================================================
\* The Added highlight on its own (specification SpecHighlight):
\* applyHighlights for every pair of texts.
\* =========================================================================
HighlightInit ==
  /\ AppIdle
  /\ argOld \in Texts /\ argNew \in Texts
  /\ result = NoDiff /\ pc = "highlight"
  /\ nextId = 1 /\ histOps = 0 /\ trip = NoTrip

\* The highlights array applyHighlights sets for oldText argOld and newText
\* argNew.
HighlightStep ==
  /\ pc = "highlight"
  /\ result' = addedHighlights(argOld, argNew)
  /\ pc' = "highlightDone"
  /\ UNCHANGED << appVars, argOld, argNew, nextId, histOps, trip >>

SpecHighlight == HighlightInit /\ [][HighlightStep]_vars

\* newText is oldText with one contiguous run of characters deleted.
RunDeleted(oldText, newText) ==
  /\ Len(newText) < Len(oldText)
  /\ \E i \in 0..Len(newText) :
       newText = SubSeq(oldText, 1, i)
                 \o SubSeq(oldText, i + (Len(oldText) - Len(newText)) + 1,
                           Len(oldText))

\* C38: applyHighlights gives no highlight when the new text equals the old
\* one or is the old one with one run of characters deleted; otherwise it
\* gives exactly one Added range [s, e) with 0 <= s < e <= len(new), the two
\* texts agreeing on their first s and on their last len(new) - e characters.
C38_AddedHighlightRange ==
  pc = "highlightDone"
  => IF argNew = argOld \/ RunDeleted(argOld, argNew)
     THEN result = << >>
     ELSE /\ Len(result) = 1
          /\ result[1].type = "added"
          /\ 0 <= result[1].start /\ result[1].start < result[1].end
          /\ result[1].end <= Len(argNew)
          /\ result[1].start <= Len(argOld)
          /\ SubSeq(argOld, 1, result[1].start)
               = SubSeq(argNew, 1, result[1].start)
          /\ Len(argNew) - result[1].end <= Len(argOld)
          /\ SubSeq(argOld, Len(argOld) - (Len(argNew) - result[1].end) + 1,
                    Len(argOld))
               = SubSeq(argNew, result[1].end + 1, Len(argNew))

\* A line was inserted between the two lines of a text: the range covers
\* the inserted characters.
C38_Witness ==
  /\ pc = "highlightDone"
  /\ argOld = TxtAB /\ argNew = << "a", NL, "a", NL, "b" >>
  /\ result = << [ start |-> 2, end |-> 4, type |-> "added" ] >>

\* =========================================================================
\* The history log on its own (specification SpecHistory): saveToHistory,
\* undo, redo and clear of the hook, and the handlers of the application,
\* each run on the state of the latest render.
\* =========================================================================
MaxFill == 52      \* appends before the first other operation
MaxHistOps == 3    \* operations from the first undo, redo or clear on

\* The k-th appended entry.
EntryNo(k) ==
  HistoryEntry(IF k % 2 = 0 THEN TxtA ELSE TxtAB, << "x" >>, k, k)

HistInit ==
  /\ AppIdle
  /\ argOld = Empty /\ argNew = Empty /\ result = NoDiff /\ pc = "history"
  /\ nextId = 1 /\ histOps = 0 /\ trip = NoTrip

HistFree == trip.phase = "free"
HistBudget == HistFree /\ histOps < MaxHistOps

HistIdleApp ==
  UNCHANGED << text, prev, debounced, lastEdited, tokenCount, isTranslating,
               error, highlights, settingsVars, debTimer, hlTimers,
               delTimers, calls, counts, edits, cycles, lastCommit, ev >>

\* saveToHistory(entry) of the hook.
HistAppend ==
  /\ HistFree
  /\ IF histOps = 0 THEN nextId <= MaxFill ELSE histOps < MaxHistOps
  /\ LET saved == saveToHistory(history, historyIndex, EntryNo(nextId))
     IN  /\ history' = saved.history
         /\ historyIndex' = IF saved.setIndex THEN saved.index ELSE historyIndex
  /\ nextId' = nextId + 1
  /\ histOps' = IF histOps = 0 THEN 0 ELSE histOps + 1
  /\ HistIdleApp
  /\ UNCHANGED << argOld, argNew, result, pc, trip >>

\* undo() of the hook.
HistUndo ==
  /\ HistBudget
  /\ historyIndex' = undo(history, historyIndex)
  /\ histOps' = histOps + 1
  /\ HistIdleApp
  /\ UNCHANGED << history, argOld, argNew, result, pc, nextId, trip >>

\* redo() of the hook.
HistRedo ==
  /\ HistBudget
  /\ historyIndex' = redo(history, historyIndex)
  /\ histOps' = histOps + 1
  /\ HistIdleApp
  /\ UNCHANGED << history, argOld, argNew, result, pc, nextId, trip >>

\* clear() of the hook.
HistClear ==
  /\ HistBudget
  /\ history' = << >>
  /\ historyIndex' = -1
  /\ histOps' = histOps + 1
  /\ HistIdleApp
  /\ UNCHANGED << argOld, argNew, result, pc, nextId, trip >>

\* handleUndo, handleRedo and handleClear of the application.
HistHandler(A) ==
  /\ HistBudget
  /\ A
  /\ histOps' = histOps + 1
  /\ UNCHANGED << argOld, argNew, result, pc, nextId, trip >>

\* A round trip starts from a log whose cursor is at the top entry: as many
\* undos as the cursor, then as many redos.
BeginTrip ==
  /\ HistFree
  /\ historyIndex >= 0
  /\ historyIndex = Len(history) - 1
  /\ trip' = [ phase |-> IF historyIndex = 0 THEN "done" ELSE "undo",
               top |-> historyIndex, left |-> historyIndex, hist |-> history ]
  /\ UNCHANGED << appVars, argOld, argNew, result, pc, nextId, histOps >>

TripUndo ==
  /\ trip.phase = "undo"
  /\ handleUndo
  /\ trip' = IF trip.left = 1
             THEN [ trip EXCEPT !.phase = "redo", !.left = trip.top ]
             ELSE [ trip EXCEPT !.left = @ - 1 ]
  /\ UNCHANGED << argOld, argNew, result, pc, nextId, histOps >>

TripRedo ==
  /\ trip.phase = "redo"
  /\ handleRedo
  /\ trip' = IF trip.left = 1
             THEN [ trip EXCEPT !.phase = "done", !.left = 0 ]
             ELSE [ trip EXCEPT !.left = @ - 1 ]
  /\ UNCHANGED << argOld, argNew, result, pc, nextId, histOps >>

HistNext ==
  \/ HistAppend
  \/ HistUndo
  \/ HistRedo
  \/ HistClear
  \/ HistHandler(handleUndo)
  \/ HistHandler(handleRedo)
  \/ HistHandler(handleClear)
  \/ BeginTrip
  \/ TripUndo
  \/ TripRedo

SpecHistory == HistInit /\ [][HistNext]_vars

\* C7: the log has at most 50 entries; the cursor is -1 when the log is
\* empty and otherwise 0 <= cursor < length.
C7_HistoryInvariant ==
  /\ Len(history) <= 50
  /\ history = << >> => historyIndex = -1
  /\ history # << >> => (0 <= historyIndex /\ historyIndex < Len(history))

C7_Witness ==
  /\ Len(history) = 50 /\ historyIndex = 49
  /\ nextId > 51 /\ histOps > 0

\* C8: an append keeps the entries up to the cursor, discards those beyond
\* it and pushes the new entry, which is then the last one with the cursor
\* on it, so that redo changes nothing.
C8_BranchTruncation ==
  [][ nextId' # nextId
      => LET kept == SubSeq(history, 1, historyIndex + 1)
         IN  /\ history'[Len(history')] = EntryNo(nextId)
             /\ historyIndex' = Len(history') - 1
             /\ redo(history', historyIndex') = historyIndex'
             /\ \/ history' = kept \o << EntryNo(nextId) >>
                \/ /\ Len(kept) = 50
                   /\ history' = Tail(kept) \o << EntryNo(nextId) >> ]_vars

\* An append was made below the last entry: the last two entries do not
\* carry consecutive numbers.
C8_Witness ==
  /\ Len(history) >= 3 /\ historyIndex = Len(history) - 1
  /\ history[Len(history)].leftTokenCount
       > history[Len(history) - 1].leftTokenCount + 1

\* C9: an append to a full log (50 entries, cursor 49) removes the oldest
\* entry only, keeps the other 49 in order before the new entry and leaves
\* the cursor at 49; after 51 appends from the empty log the length is 50
\* and the first appended entry is gone.
C9_Eviction ==
  [][ /\ (nextId' # nextId /\ Len(history) = 50 /\ historyIndex = 49)
         => /\ history' = Tail(history) \o << EntryNo(nextId) >>
            /\ historyIndex' = 49
      /\ (nextId' = 52 /\ histOps' = 0)
         => /\ Len(history') = 50
            /\ \A k \in 1..50 : history'[k] # EntryNo(1) ]_vars

C9_Witness ==
  /\ nextId = 52 /\ histOps = 0
  /\ Len(history) = 50 /\ historyIndex = 49
  /\ history[1] = EntryNo(2) /\ history[50] = EntryNo(51)

\* C10: from a log whose cursor c is at the top entry, c undos followed by
\* c redos leave the log unchanged and the cursor at c, and the panes and
\* token counts are those of the top entry.
C10_UndoRedoRoundTrip ==
  trip.phase = "done"
    => /\ history = trip.hist
       /\ historyIndex = trip.top
       /\ trip.top >= 1
          => LET top == trip.hist[trip.top + 1]
             IN  /\ text = [ left |-> top.leftText, right |-> top.rightText ]
                 /\ prev = text
                 /\ tokenCount = [ left |-> top.leftTokenCount,
                                   right |-> top.rightTokenCount ]

C10_Witness ==
  /\ trip.phase = "done" /\ trip.top >= 2
  /\ historyIndex = trip.top
  /\ tokenCount.left = history[trip.top + 1].leftTokenCount
  /\ history[trip.top + 1] # history[trip.top]

====
